---- MODULE Spec2Model ----
(***************************************************************************)
(* Trading Safety & Session Core of capital_mcp: the two-phase             *)
(* preview/execute risk engine with its preview cache and daily order      *)
(* counter (risk.py), the trade tools that drive it (server.py), and the   *)
(* session gate they call first (session.py, capital_client.py).           *)
(*                                                                         *)
(* Sizes are fixed-point numbers in units of 1/Scale (0.37 is 3700), so    *)
(* that the 0.0001 rounding tolerance of _normalize_size is one unit.      *)
(* Times are whole seconds of the UTC wall clock.                          *)
(***************************************************************************)
EXTENDS Integers, Sequences, FiniteSets, TLC

\* ------------------------------------------------------------------ bounds
MaxPreviews == 1
MaxOrders == 2
MaxOrdersPerDay == 1
MaxClockSteps == 2
MaxRequests == 2
MaxClientTime == 2
MaxCallers == 2
MaxOversleep == 1
MaxLoginCallers == 3
MaxLogins == 2
MaxSessionClock == 640
MaxDuration == 12
MaxEpics == 50
MaxWindowTicks == 400
MaxPollTimeout == 12

\* ------------------------------------------------------- program constants
Scale == 10000
RoundTolerance == 1
PreviewTTL == 120
SessionMaxAge == 540
CapMaxPositionSize == 10000
DefaultMinDealSize == 1000
DefaultMaxDealSize == 10000000
DefaultMinSizeIncrement == 1000

SecondsPerDay == 24 * 60 * 60
\* the run starts a minute before midnight UTC; the clock moves in steps that
\* reach the preview TTL (60 + 60) exactly
StartOfRun == SecondsPerDay - 60
ClockSteps == {60}

PreviewIds == 1 .. MaxPreviews
EmptyId == 0
NoId == -1
\* the id of a PreviewResult that never entered the cache
UncachedId == MaxPreviews + 1
Epics == {"GOLD", "OIL"}
RequestSizes == {3700, 15000}
None == "None"
NoDate == -1

VARIABLES
    config,              \* Config: fixed when the process starts
    now,                 \* datetime.utcnow(), seconds
    clock_steps,         \* how often the clock advanced (bounds the run)
    preview_cache,       \* RiskEngine._preview_cache: preview id -> PreviewResult
    next_preview_id,     \* the next uuid4 a PreviewResult draws
    order_count,         \* RiskEngine._order_count
    order_count_date,    \* RiskEngine._order_count_date
    tokens,              \* SessionManager.tokens
    client_tokens,       \* CapitalClient.session_tokens
    call,                \* the tool call in progress, or the one that ended last
    posted,              \* history: order POSTs put on the wire, per preview id
    normalize,           \* a call of _normalize_size on its own: arguments, result
    http,                \* CapitalClient.request on its own: calls, sends, grants
    limiter,             \* RateLimiter on its own: clock, buckets, callers
    logins,              \* SessionManager on its own: lock, callers, tokens
    ws                   \* WebSocketClient on its own: connection, subscriptions

vars == <<config, now, clock_steps, preview_cache, next_preview_id, order_count,
          order_count_date, tokens, client_tokens, call, posted, normalize,
                   http, limiter, logins, ws>>

\* ------------------------------------------------------------------ config
\* Config.validate_trading_config: trading allowed needs a non-empty allowlist.
Configs ==
    { [cap_allow_trading |-> a, cap_dry_run |-> d,
       cap_require_explicit_confirm |-> c, allowed_epics_list |-> l,
       cap_max_position_size |-> CapMaxPositionSize,
       cap_max_orders_per_day |-> MaxOrdersPerDay,
       cap_preview_cache_ttl_s |-> PreviewTTL] :
        a \in BOOLEAN, d \in BOOLEAN, c \in BOOLEAN,
        l \in {<<"GOLD">>, <<"ALL">>} }

\* Config.is_epic_allowed (epics are written in upper case throughout)
is_epic_allowed(cfg, epic) ==
    IF ~cfg.cap_allow_trading THEN FALSE
    ELSE IF Len(cfg.allowed_epics_list) = 0 THEN FALSE
    ELSE IF cfg.allowed_epics_list[1] = "ALL" THEN TRUE
    ELSE \E i \in 1 .. Len(cfg.allowed_epics_list) : cfg.allowed_epics_list[i] = epic

\* ------------------------------------------------------------------- clock
\* datetime.utcnow().date(): the UTC date of the wall clock, as a day number
Today(t) == t \div SecondsPerDay

\* is_expired with the comparison made strict: a preview of exactly the TTL's
\* age would still be served
PreviewIsExpired_Strict(created_at, t, ttl_seconds) == t - created_at > ttl_seconds

\* PreviewResult.is_expired
PreviewIsExpired(created_at, t, ttl_seconds) == t - created_at >= ttl_seconds

\* a variant of is_expired that lets the boundary pass
TokensIsExpired_Strict(tok, t) == t - tok.last_used_at > SessionMaxAge

\* SessionTokens.is_expired
TokensIsExpired(tok, t) == t - tok.last_used_at >= SessionMaxAge

\* ------------------------------------------------------------- risk engine
Abs(x) == IF x < 0 THEN -x ELSE x

\* the quotient truncated, as int(size / increment) would
RoundQuotient_Truncate(size, increment, tie_up) == size \div increment

\* Python round(size / increment). On an exact half the binary quotient lands on
\* either side (0.35 / 0.1 is 3.4999999999999996, 0.55 / 0.1 is 5.5), so the
\* neighbour taken there is an input: tie_up.
RoundQuotient(size, increment, tie_up) ==
    LET q == size \div increment
        r == size % increment
    IN  IF 2 * r < increment THEN q
        ELSE IF 2 * r > increment THEN q + 1
        ELSE IF tie_up THEN q + 1 ELSE q

\* RiskEngine._normalize_size: (normalized_size, warnings)
NormalizeSize(size, min_size, max_size, increment, tie_up) ==
    LET rounded == RoundQuotient(size, increment, tie_up) * increment
        w1 == IF Abs(rounded - size) > RoundTolerance
                THEN <<"rounded">> ELSE <<>>
    IN  IF rounded < min_size
          THEN [size |-> min_size, warnings |-> Append(w1, "increased_to_minimum")]
        ELSE IF rounded > max_size
          THEN [size |-> max_size, warnings |-> Append(w1, "decreased_to_maximum")]
        ELSE [size |-> rounded, warnings |-> w1]

\* the reset moving the date on but keeping the old day's count
ResetIfNewDay_KeepCount(count, date, today) ==
    [count |-> count, date |-> today]

\* the date-keyed reset both _check_daily_limit and increment_order_count begin with
ResetIfNewDay(count, date, today) ==
    IF date # today THEN [count |-> 0, date |-> today]
    ELSE [count |-> count, date |-> date]

\* RiskEngine._check_daily_limit: the RiskCheck and the counter it leaves
CheckDailyLimit(cfg, count, date, today) ==
    LET c == ResetIfNewDay(count, date, today)
    IN  [passed |-> ~(c.count >= cfg.cap_max_orders_per_day),
         count |-> c.count, date |-> c.date]

\* RiskEngine.increment_order_count: the counter it leaves
IncrementOrderCount(count, date, today) ==
    LET c == ResetIfNewDay(count, date, today)
    IN  [count |-> c.count + 1, date |-> c.date]

RiskCheck(name, passed) == [check |-> name, passed |-> passed]

\* normalized_request={}
EmptyRequest == [k \in {} |-> None]

FailedPreview(checks) ==
    [normalized_request |-> EmptyRequest, checks |-> checks,
     all_checks_passed |-> FALSE]

\* the dealing rules preview_position extracts from the market details, with
\* its defaults for the ones the broker left out
DealingRules ==
    { [minDealSize |-> DefaultMinDealSize, maxDealSize |-> 5000,
       minSizeIncrement |-> DefaultMinSizeIncrement],
      [minDealSize |-> DefaultMinDealSize, maxDealSize |-> DefaultMaxDealSize,
       minSizeIncrement |-> DefaultMinSizeIncrement] }

\* what _get_market_details came to: the GET was refused by the rate limiter,
\* failed (transport, HTTP status, body), or returned the market's rules
\* (rules is read only when status is "ok")
FetchOutcomes ==
    { [status |-> st, rules |-> r] :
        st \in {"rate_limited", "error", "ok"}, r \in DealingRules }
NoRules == [minDealSize |-> 0, maxDealSize |-> 0, minSizeIncrement |-> 0]
\* no fetch was made
NoFetch == [status |-> "none", rules |-> NoRules]

\* the policy comparison turned round
ExceedsPolicy_Reversed(cfg, normalized_size) ==
    normalized_size < cfg.cap_max_position_size

\* preview_position's check 5: the normalized size against the policy limit
ExceedsPolicy(cfg, normalized_size) ==
    normalized_size > cfg.cap_max_position_size

\* preview_position with the daily limit consulted before the allowlist
PreviewPosition_DailyBeforeEpic(cfg, epic, size, daily, fetch, tie_up) ==
    LET c1 == <<RiskCheck("trading_enabled", TRUE)>>
        c2 == Append(c1, RiskCheck("daily_order_limit", daily.passed))
        c3 == Append(c2, RiskCheck("epic_allowed", TRUE))
        c4 == Append(c3, RiskCheck("market_details", TRUE))
    IN  IF ~cfg.cap_allow_trading
          THEN FailedPreview(<<RiskCheck("trading_enabled", FALSE)>>)
        ELSE IF ~daily.passed
          THEN FailedPreview(c2)
        ELSE IF ~is_epic_allowed(cfg, epic)
          THEN FailedPreview(Append(c2, RiskCheck("epic_allowed", FALSE)))
        ELSE IF fetch.status # "ok"
          THEN FailedPreview(Append(c3, RiskCheck("market_details", FALSE)))
        ELSE
          LET n == NormalizeSize(size, fetch.rules.minDealSize,
                                 fetch.rules.maxDealSize,
                                 fetch.rules.minSizeIncrement, tie_up)
              c5 == Append(c4, RiskCheck("max_position_size", TRUE))
          IN  IF n.size > cfg.cap_max_position_size
                THEN FailedPreview(Append(c4, RiskCheck("max_position_size", FALSE)))
              ELSE [normalized_request |->
                        [epic |-> epic, size |-> n.size,
                         size_warnings |-> n.warnings],
                    checks |-> c5,
                    all_checks_passed |-> \A i \in 1 .. Len(c5) : c5[i].passed]

\* RiskEngine.preview_position, without the preview id and created_at the
\* PreviewResult draws: daily is _check_daily_limit's result, fetch the outcome
\* of _get_market_details (each used only if the checks before it passed)
PreviewPosition(cfg, epic, size, daily, fetch, tie_up) ==
    LET c1 == <<RiskCheck("trading_enabled", TRUE)>>
        c2 == Append(c1, RiskCheck("epic_allowed", TRUE))
        c3 == Append(c2, RiskCheck("daily_order_limit", daily.passed))
        c4 == Append(c3, RiskCheck("market_details", TRUE))
    IN  IF ~cfg.cap_allow_trading
          THEN FailedPreview(<<RiskCheck("trading_enabled", FALSE)>>)
        ELSE IF ~is_epic_allowed(cfg, epic)
          THEN FailedPreview(Append(c1, RiskCheck("epic_allowed", FALSE)))
        ELSE IF ~daily.passed
          THEN FailedPreview(c3)
        ELSE IF fetch.status # "ok"
          THEN FailedPreview(Append(c3, RiskCheck("market_details", FALSE)))
        ELSE
          LET n == NormalizeSize(size, fetch.rules.minDealSize,
                                 fetch.rules.maxDealSize,
                                 fetch.rules.minSizeIncrement, tie_up)
              c5 == Append(c4, RiskCheck("max_position_size", TRUE))
          IN  IF ExceedsPolicy(cfg, n.size)
                THEN FailedPreview(Append(c4, RiskCheck("max_position_size", FALSE)))
              ELSE [normalized_request |->
                        [epic |-> epic, size |-> n.size,
                         size_warnings |-> n.warnings],
                    checks |-> c5,
                    all_checks_passed |-> \A i \in 1 .. Len(c5) : c5[i].passed]

\* RiskEngine.preview_working_order: the position checks, then the order's
\* type and level laid onto the normalized request if all checks passed
PreviewWorkingOrder(cfg, epic, size, daily, fetch, tie_up) ==
    LET result == PreviewPosition(cfg, epic, size, daily, fetch, tie_up)
    IN  IF result.all_checks_passed
          THEN [result EXCEPT !.normalized_request =
                    [k \in DOMAIN @ \cup {"type"} |->
                        IF k = "type" THEN "LIMIT" ELSE @[k]]]
          ELSE result

\* RiskEngine.get_preview: the error code raised (or "OK"), and the cache it leaves
GetPreview(cache, preview_id, t, cfg) ==
    IF preview_id \notin DOMAIN cache
      THEN [code |-> "PREVIEW_NOT_FOUND", cache |-> cache]
    ELSE IF PreviewIsExpired(cache[preview_id].created_at, t,
                             cfg.cap_preview_cache_ttl_s)
      THEN [code |-> "PREVIEW_EXPIRED",
            cache |-> [p \in DOMAIN cache \ {preview_id} |-> cache[p]]]
    ELSE [code |-> "OK", cache |-> cache]

\* the guards without the dry-run guard
ValidateExecutionGuards_NoDryRun(cfg, confirm, preview_id, cache, t) ==
    IF ~cfg.cap_allow_trading THEN [code |-> "TRADING_DISABLED", cache |-> cache]
    ELSE IF cfg.cap_require_explicit_confirm /\ ~confirm
      THEN [code |-> "CONFIRM_REQUIRED", cache |-> cache]
    ELSE IF preview_id = NoId \/ preview_id = EmptyId
      THEN [code |-> "OK", cache |-> cache]
    ELSE
      LET g == GetPreview(cache, preview_id, t, cfg)
      IN  IF g.code # "OK" THEN g
          ELSE IF ~cache[preview_id].result.all_checks_passed
            THEN [code |-> "PREVIEW_CHECKS_FAILED", cache |-> cache]
          ELSE g

\* the guards with the preview looked up first, before the configuration
ValidateExecutionGuards_PreviewFirst(cfg, confirm, preview_id, cache, t) ==
    LET g == IF preview_id = NoId \/ preview_id = EmptyId
               THEN [code |-> "OK", cache |-> cache]
               ELSE GetPreview(cache, preview_id, t, cfg)
    IN  IF g.code # "OK" THEN g
        ELSE IF ~cfg.cap_allow_trading
          THEN [code |-> "TRADING_DISABLED", cache |-> cache]
        ELSE IF cfg.cap_dry_run THEN [code |-> "DRY_RUN_ENABLED", cache |-> cache]
        ELSE IF cfg.cap_require_explicit_confirm /\ ~confirm
          THEN [code |-> "CONFIRM_REQUIRED", cache |-> cache]
        ELSE g

\* RiskEngine.validate_execution_guards: the error code raised (or "OK"), and
\* the cache it leaves. preview_id is NoId (not given), EmptyId ("") or an id.
ValidateExecutionGuards(cfg, confirm, preview_id, cache, t) ==
    IF ~cfg.cap_allow_trading THEN [code |-> "TRADING_DISABLED", cache |-> cache]
    ELSE IF cfg.cap_dry_run THEN [code |-> "DRY_RUN_ENABLED", cache |-> cache]
    ELSE IF cfg.cap_require_explicit_confirm /\ ~confirm
      THEN [code |-> "CONFIRM_REQUIRED", cache |-> cache]
    ELSE IF preview_id = NoId \/ preview_id = EmptyId
      THEN [code |-> "OK", cache |-> cache]
    ELSE
      LET g == GetPreview(cache, preview_id, t, cfg)
      IN  IF g.code # "OK" THEN g
          ELSE IF ~cache[preview_id].result.all_checks_passed
            THEN [code |-> "PREVIEW_CHECKS_FAILED", cache |-> cache]
          ELSE g

\* ----------------------------------------------------------------- session
NoTokens == [present |-> FALSE, last_used_at |-> 0]
FreshTokens(t) == [present |-> TRUE, last_used_at |-> t]

\* what the POST /session of a login came to: refused by the rate limiter (no
\* request sent), failed (transport, status, or a response lacking a token),
\* or answered with both tokens
LoginOutcomes == {"rate_limited", "failed", "ok"}

\* SessionManager.login (no account to switch to: cap_default_account_id is
\* unset): the tokens it leaves, the requests it sent, the error it raised
Login(tok, force, outcome, t) ==
    IF ~force /\ tok.present /\ ~TokensIsExpired(tok, t)
      THEN [tokens |-> tok, sent |-> <<>>, code |-> "OK"]
    ELSE IF outcome = "rate_limited"
      THEN [tokens |-> NoTokens, sent |-> <<>>, code |-> "RATE_LIMITED_LOCAL"]
    ELSE IF outcome = "failed"
      THEN [tokens |-> NoTokens, sent |-> <<"POST /session">>,
            code |-> "LOGIN_FAILED"]
    ELSE [tokens |-> FreshTokens(t), sent |-> <<"POST /session">>, code |-> "OK"]

\* SessionManager.ensure_logged_in
EnsureLoggedIn(tok, outcome, t) ==
    IF ~tok.present THEN Login(tok, FALSE, outcome, t)
    ELSE IF TokensIsExpired(tok, t) THEN Login(tok, TRUE, outcome, t)
    ELSE [tokens |-> tok, sent |-> <<>>, code |-> "OK"]

\* whether ensure_logged_in goes to the broker, so that the login's outcome matters
NeedsLogin(tok, t) == ~tok.present \/ TokensIsExpired(tok, t)

\* a variant of _get_auth_headers that leaves the last use alone
GetAuthHeaders_NoTouch(tok, t) == tok

\* CapitalClient._get_auth_headers: attaching the tokens refreshes last_used_at
\* (SessionManager.tokens and CapitalClient.session_tokens are one object)
GetAuthHeaders(tok, t) ==
    IF tok.present THEN [tok EXCEPT !.last_used_at = t] ELSE tok

\* ------------------------------------------------------------------- tools
PreviewOps == {"preview_position", "preview_working_order"}
ExecuteOps == {"execute_position", "execute_working_order"}
CloseOps == {"positions_close", "orders_cancel"}
TradeOps == ExecuteOps \cup CloseOps

\* the mutating trade request each tool sends
TradeRequest(op) ==
    CASE op = "execute_position" -> "POST /positions"
      [] op = "execute_working_order" -> "POST /workingorders"
      [] op = "positions_close" -> "DELETE /positions/{id}"
      [] op = "orders_cancel" -> "DELETE /workingorders/{id}"
MutatingTradeRequests == { TradeRequest(op) : op \in TradeOps }

\* what a preview tool returns
NoResult ==
    [preview_id |-> NoId, normalized_request |-> EmptyRequest, checks |-> <<>>,
     all_checks_passed |-> FALSE]

\* A tool call: its arguments, the broker request it built, the HTTP requests
\* it has put on the wire, what its market details fetch came to (the rules only
\* if it returned them), and once it has ended (pc = "done") what it returned
\* ("OK") or raised and the preview a preview tool returned. The tools are
\* called one at a time; the clock moves while a call waits on the network.
NoCall ==
    [pc |-> "idle", op |-> None, epic |-> None, size |-> 0, preview_id |-> NoId,
     confirm |-> FALSE, request |-> EmptyRequest, sent |-> <<>>,
     fetch |-> NoFetch, result |-> None, preview |-> NoResult]

\* _normalize_size is not being looked at on its own
NoNormalize ==
    [pc |-> "off", size |-> 0, rules |-> NoRules, tie_up |-> FALSE,
     normalized |-> 0, warnings |-> <<>>]

\* the client, the rate limiter, the login lock are not being looked at on
\* their own
NoHttp == [pc |-> "off"]
NoLimiter == [pc |-> "off"]
NoLogins == [pc |-> "off"]
NoStream == [pc |-> "off"]

RECURSIVE SumPosted(_)
SumPosted(S) ==
    IF S = {} THEN 0
    ELSE LET x == CHOOSE y \in S : TRUE IN posted[x] + SumPosted(S \ {x})
TotalPosted == SumPosted(DOMAIN posted)

Init ==
    /\ config \in Configs
    /\ now = StartOfRun
    /\ clock_steps = 0
    /\ preview_cache = [p \in {} |-> NoResult]
    /\ next_preview_id = 1
    /\ order_count = 0
    /\ order_count_date = NoDate
    /\ tokens = NoTokens
    /\ client_tokens = NoTokens
    /\ call = NoCall
    /\ posted = [p \in PreviewIds |-> 0]
    /\ normalize = NoNormalize
    /\ http = NoHttp
    /\ limiter = NoLimiter
    /\ logins = NoLogins
    /\ ws = NoStream

\* the wall clock moves on
AdvanceClock(d) ==
    /\ clock_steps < MaxClockSteps
    /\ now' = now + d
    /\ clock_steps' = clock_steps + 1
    /\ UNCHANGED <<config, preview_cache, next_preview_id, order_count,
                   order_count_date, tokens, client_tokens, call, posted, normalize,
                   http, limiter, logins, ws>>

\* A tool is called: every trade tool begins with session.ensure_logged_in(),
\* and ends there if the login raises.
Begin(op, epic, size, preview_id, confirm, outcome) ==
    /\ call.pc \in {"idle", "done"}
    /\ NeedsLogin(tokens, now) \/ outcome = "ok"
    /\ op \in ExecuteOps => TotalPosted < MaxOrders
    /\ LET s == EnsureLoggedIn(tokens, outcome, now)
           c == [NoCall EXCEPT !.op = op, !.epic = epic, !.size = size,
                               !.preview_id = preview_id, !.confirm = confirm,
                               !.sent = s.sent]
       IN  /\ tokens' = s.tokens
           /\ client_tokens' = s.tokens
           /\ call' = IF s.code = "OK" THEN [c EXCEPT !.pc = "run"]
                      ELSE [c EXCEPT !.pc = "done", !.result = s.code]
    /\ UNCHANGED <<config, now, clock_steps, preview_cache, next_preview_id,
                   order_count, order_count_date, posted, normalize,
                   http, limiter, logins, ws>>

BeginPreview ==
    \E op \in PreviewOps, epic \in Epics, size \in RequestSizes,
       outcome \in LoginOutcomes :
        Begin(op, epic, size, NoId, FALSE, outcome)

BeginExecute ==
    \E op \in ExecuteOps, preview_id \in {EmptyId, UncachedId} \cup PreviewIds,
       confirm \in BOOLEAN, outcome \in LoginOutcomes :
        Begin(op, None, 0, preview_id, confirm, outcome)

BeginClose ==
    \E op \in CloseOps, confirm \in BOOLEAN, outcome \in LoginOutcomes :
        Begin(op, None, 0, NoId, confirm, outcome)

\* a variant of preview_position that caches what its early returns hand back
EntersCache_Always(r) == TRUE

\* preview_position: the result reaches self._preview_cache[...] = result only
\* if no check returned early, that is, if all of them passed
EntersCache(r) == r.all_checks_passed

\* cap_trade_preview_position / cap_trade_preview_working_order after the
\* session gate: the risk engine's preview, which caches a passing result under
\* a fresh id. The counter is touched only if the daily check ran, and a GET
\* goes out only if the checks before the market fetch passed.
PreviewRun(fetch, tie_up) ==
    /\ call.pc = "run"
    /\ call.op \in PreviewOps
    /\ LET daily == CheckDailyLimit(config, order_count, order_count_date,
                                    Today(now))
           r == IF call.op = "preview_position"
                  THEN PreviewPosition(config, call.epic, call.size, daily,
                                       fetch, tie_up)
                  ELSE PreviewWorkingOrder(config, call.epic, call.size, daily,
                                           fetch, tie_up)
           id == IF EntersCache(r) THEN next_preview_id ELSE UncachedId
           result == [preview_id |-> id,
                      normalized_request |-> r.normalized_request,
                      checks |-> r.checks,
                      all_checks_passed |-> r.all_checks_passed]
           ran_daily == Len(r.checks) >= 3
           tried == Len(r.checks) >= 4
           fetched == tried /\ fetch.status # "rate_limited"
       IN  /\ EntersCache(r) => next_preview_id <= MaxPreviews
           /\ order_count' = IF ran_daily THEN daily.count ELSE order_count
           /\ order_count_date' = IF ran_daily THEN daily.date
                                  ELSE order_count_date
           /\ tokens' = IF fetched THEN GetAuthHeaders(tokens, now) ELSE tokens
           /\ client_tokens' = tokens'
           /\ preview_cache' =
                IF EntersCache(r)
                  THEN [p \in DOMAIN preview_cache \cup {id} |->
                          IF p = id
                            THEN [result |-> result, created_at |-> now]
                            ELSE preview_cache[p]]
                  ELSE preview_cache
           /\ next_preview_id' = IF EntersCache(r)
                                   THEN next_preview_id + 1
                                   ELSE next_preview_id
           /\ call' = [call EXCEPT !.pc = "done", !.result = "OK",
                          !.preview = result,
                          !.fetch = IF ~tried THEN NoFetch
                                    ELSE IF fetch.status = "ok" THEN fetch
                                    ELSE [fetch EXCEPT !.rules = NoRules],
                          !.sent = IF fetched
                                     THEN Append(@, "GET /markets/{epic}")
                                     ELSE @]
    /\ UNCHANGED <<config, now, clock_steps, posted, normalize,
                   http, limiter, logins, ws>>

\* the broker request the execute tools build from the cached preview
BrokerRequest(op, normalized) ==
    IF op = "execute_working_order"
      THEN [epic |-> normalized.epic, type |-> normalized.type,
            size |-> normalized.size]
      ELSE [epic |-> normalized.epic, size |-> normalized.size]

\* The synchronous stretch of a trade tool after the session gate:
\* validate_execution_guards, then (execute tools) get_preview and the broker
\* request built from normalized_request; normalized["type"] of a preview that
\* has none raises KeyError.
GuardAndBuild(cfg, op, confirm, preview_id, cache, t) ==
    LET g == ValidateExecutionGuards(cfg, confirm,
                 IF op \in ExecuteOps THEN preview_id ELSE NoId, cache, t)
    IN  IF g.code # "OK"
          THEN [code |-> g.code, cache |-> g.cache, request |-> EmptyRequest]
        ELSE IF op \in CloseOps
          THEN [code |-> "OK", cache |-> g.cache, request |-> EmptyRequest]
        ELSE
          LET p == GetPreview(g.cache, preview_id, t, cfg)
          IN  IF p.code # "OK"
                THEN [code |-> p.code, cache |-> p.cache,
                      request |-> EmptyRequest]
              ELSE IF op = "execute_working_order"
                      /\ "type" \notin
                           DOMAIN p.cache[preview_id].result.normalized_request
                THEN [code |-> "KEY_ERROR", cache |-> p.cache,
                      request |-> EmptyRequest]
              ELSE [code |-> "OK", cache |-> p.cache,
                    request |-> BrokerRequest(op,
                        p.cache[preview_id].result.normalized_request)]

\* the tool with the request put on the wire before the guards are consulted
Guard_AfterSend ==
    /\ call.pc = "run"
    /\ call.op \in TradeOps
    /\ LET b == GuardAndBuild(config, call.op, call.confirm, call.preview_id,
                              preview_cache, now)
       IN  /\ preview_cache' = b.cache
           /\ call' = IF b.code = "OK"
                        THEN [call EXCEPT !.pc = "post", !.request = b.request]
                        ELSE [call EXCEPT !.pc = "done", !.result = b.code,
                                 !.sent = Append(@, TradeRequest(call.op))]
    /\ UNCHANGED <<config, now, clock_steps, next_preview_id, order_count,
                   order_count_date, tokens, client_tokens, posted, normalize,
                   http, limiter, logins, ws>>

Guard ==
    /\ call.pc = "run"
    /\ call.op \in TradeOps
    /\ LET b == GuardAndBuild(config, call.op, call.confirm, call.preview_id,
                              preview_cache, now)
       IN  /\ preview_cache' = b.cache
           /\ call' = IF b.code = "OK"
                        THEN [call EXCEPT !.pc = "post", !.request = b.request]
                        ELSE [call EXCEPT !.pc = "done", !.result = b.code]
    /\ UNCHANGED <<config, now, clock_steps, next_preview_id, order_count,
                   order_count_date, tokens, client_tokens, posted, normalize,
                   http, limiter, logins, ws>>

\* CapitalClient.request up to the send: the rate limiter grants a token or
\* the call ends with RateLimitError; on a grant the auth headers are attached
\* and the request goes on the wire.
Send(granted) ==
    /\ call.pc = "post"
    /\ IF granted
         THEN /\ tokens' = GetAuthHeaders(tokens, now)
              /\ client_tokens' = tokens'
              /\ call' = [call EXCEPT !.pc = "inflight",
                             !.sent = Append(@, TradeRequest(call.op))]
              /\ posted' = IF call.op \in ExecuteOps
                             THEN [posted EXCEPT ![call.preview_id] = @ + 1]
                             ELSE posted
         ELSE /\ call' = [call EXCEPT !.pc = "done",
                             !.result = "RATE_LIMITED_LOCAL"]
              /\ UNCHANGED <<tokens, client_tokens, posted>>
    /\ UNCHANGED <<config, now, clock_steps, preview_cache, next_preview_id,
                   order_count, order_count_date, normalize,
                   http, limiter, logins, ws>>

\* what the broker's answer to a POST or DELETE came to: an error (transport
\* failure, 401/403, status >= 400), a 2xx whose body is not JSON, a 2xx with
\* the deal reference
ResponseOutcomes == {"error", "ok_malformed", "ok"}

\* The rest of a trade tool once the request returned: response.json(), then
\* (execute tools) increment_order_count, then the confirmation wait if asked.
Receive(outcome, wait_for_confirm) ==
    /\ call.pc = "inflight"
    /\ LET counted == call.op \in ExecuteOps /\ outcome = "ok"
           c == IncrementOrderCount(order_count, order_count_date, Today(now))
       IN  /\ order_count' = IF counted THEN c.count ELSE order_count
           /\ order_count_date' = IF counted THEN c.date ELSE order_count_date
           /\ call' =
                  IF outcome = "error"
                    THEN [call EXCEPT !.pc = "done", !.result = "UPSTREAM_ERROR"]
                  ELSE IF outcome = "ok_malformed"
                    THEN [call EXCEPT !.pc = "done", !.result = "JSON_ERROR"]
                  ELSE IF wait_for_confirm THEN [call EXCEPT !.pc = "confirm"]
                  ELSE [call EXCEPT !.pc = "done", !.result = "OK"]
    /\ UNCHANGED <<config, now, clock_steps, preview_cache, next_preview_id,
                   tokens, client_tokens, posted, normalize,
                   http, limiter, logins, ws>>

\* _wait_for_confirmation: the session gate again, then poll_until over
\* GET /confirms/{ref}; a poll's own errors and a timeout are swallowed.
Confirm(outcome, polled) ==
    /\ call.pc = "confirm"
    /\ NeedsLogin(tokens, now) \/ outcome = "ok"
    /\ LET s == EnsureLoggedIn(tokens, outcome, now)
           sent == IF s.code = "OK" /\ polled
                     THEN Append(call.sent \o s.sent, "GET /confirms/{ref}")
                     ELSE call.sent \o s.sent
       IN  /\ tokens' = IF s.code = "OK" /\ polled
                          THEN GetAuthHeaders(s.tokens, now) ELSE s.tokens
           /\ client_tokens' = tokens'
           /\ call' = [call EXCEPT !.pc = "done", !.result = s.code,
                          !.sent = sent]
    /\ UNCHANGED <<config, now, clock_steps, preview_cache, next_preview_id,
                   order_count, order_count_date, posted, normalize,
                   http, limiter, logins, ws>>

Next ==
    \/ \E d \in ClockSteps : AdvanceClock(d)
    \/ BeginPreview
    \/ BeginExecute
    \/ BeginClose
    \/ \E fetch \in FetchOutcomes, tie_up \in BOOLEAN : PreviewRun(fetch, tie_up)
    \/ Guard
    \/ \E granted \in BOOLEAN : Send(granted)
    \/ \E outcome \in ResponseOutcomes, w \in BOOLEAN : Receive(outcome, w)
    \/ \E outcome \in LoginOutcomes, polled \in BOOLEAN : Confirm(outcome, polled)

Spec == Init /\ [][Next]_vars

\* ------------------------------------------------ _normalize_size on its own
\* requested sizes on and off the 0.1 and 0.05 grids, at a half, within the
\* rounding tolerance of the grid, below the minimum and above the maximum
NormalizeSizes == {400, 2500, 3000, 3001, 3002, 3500, 3700, 5000, 12000, 15000}
NormalizeRules ==
    DealingRules \cup
    { [minDealSize |-> 2000, maxDealSize |-> 10000, minSizeIncrement |-> 500] }

InitNormalize ==
    /\ config \in { c \in Configs : /\ ~c.cap_allow_trading
                                    /\ ~c.cap_dry_run
                                    /\ c.cap_require_explicit_confirm
                                    /\ c.allowed_epics_list = <<"GOLD">> }
    /\ now = StartOfRun
    /\ clock_steps = 0
    /\ preview_cache = [p \in {} |-> NoResult]
    /\ next_preview_id = 1
    /\ order_count = 0
    /\ order_count_date = NoDate
    /\ tokens = NoTokens
    /\ client_tokens = NoTokens
    /\ call = NoCall
    /\ posted = [p \in PreviewIds |-> 0]
    /\ http = NoHttp
    /\ limiter = NoLimiter
    /\ logins = NoLogins
    /\ ws = NoStream
    /\ \E size \in NormalizeSizes, rules \in NormalizeRules, tie_up \in BOOLEAN :
          normalize = [NoNormalize EXCEPT !.pc = "called", !.size = size,
                                          !.rules = rules, !.tie_up = tie_up]

\* _normalize_size(size, min_size, max_size, increment) returns
NormalizeReturn ==
    /\ normalize.pc = "called"
    /\ LET n == NormalizeSize(normalize.size, normalize.rules.minDealSize,
                              normalize.rules.maxDealSize,
                              normalize.rules.minSizeIncrement, normalize.tie_up)
       IN  normalize' = [normalize EXCEPT !.pc = "returned",
                                          !.normalized = n.size,
                                          !.warnings = n.warnings]
    /\ UNCHANGED <<config, now, clock_steps, preview_cache, next_preview_id,
                   order_count, order_count_date, tokens, client_tokens, call,
                   posted, http, limiter, logins, ws>>

NextNormalize == NormalizeReturn

SpecNormalize == InitNormalize /\ [][NextNormalize]_vars

\* ------------------------------------------ CapitalClient.request on its own
\* One call of get/post/put/delete at a time against a rate limiter whose
\* answer and a broker whose response are both free.  http.wire counts every
\* client.request() of the run, http.granted every token the global bucket
\* handed out; time is in whole seconds.

Methods == {"GET", "POST", "PUT", "DELETE"}
RateLimitTypes == {"global", "session", "trading"}
DefaultMaxRetries == 3
MaxBackoff == 10

\* the arguments the four wrappers pass to request()
GetCall == [method |-> "GET", rate_limit_type |-> "global",
            max_retries |-> DefaultMaxRetries]
PostCall(rate_limit_type) ==
    [method |-> "POST", rate_limit_type |-> rate_limit_type, max_retries |-> 1]
PutCall == [method |-> "PUT", rate_limit_type |-> "global", max_retries |-> 1]
DeleteCall == [method |-> "DELETE", rate_limit_type |-> "global",
               max_retries |-> 1]
WrapperCalls ==
    {GetCall, PutCall, DeleteCall} \cup {PostCall(t) : t \in RateLimitTypes}

\* what acquire_global / acquire_session / acquire_trading can answer: the
\* composite ones can be refused by the global bucket or, after the global
\* bucket granted, by their own bucket
AcquireOutcomes(rate_limit_type) ==
    IF rate_limit_type = "global"
    THEN {"granted", "global_denied"}
    ELSE {"granted", "global_denied", "inner_denied"}

\* _get_auth_headers: the API key always, the session tokens when there are
\* any, and those are then marked as used now
AuthHeaders(session_tokens) ==
    IF session_tokens.present THEN "key+tokens" ELSE "key"

TouchTokens(session_tokens, time) ==
    IF session_tokens.present
    THEN [session_tokens EXCEPT !.last_used_at = time]
    ELSE session_tokens

\* a variant of the first step of request() that prepares the headers before
\* it looks at the limiter's answer
Request_Acquire_HeadersFirst(h, outcome) ==
    LET g == IF outcome = "global_denied" THEN h.granted ELSE h.granted + 1
        prepared == [h EXCEPT !.acquires = @ + 1, !.granted = g,
                              !.headers = AuthHeaders(h.session_tokens),
                              !.session_tokens =
                                  TouchTokens(h.session_tokens, h.time)]
    IN  IF outcome # "granted"
        THEN [prepared EXCEPT !.pc = "done", !.result = "RateLimitError"]
        ELSE [prepared EXCEPT !.pc = "send", !.attempt = 0]

\* request() up to the retry loop: the acquisition, the RateLimitError when
\* it was not granted, otherwise the headers
Request_Acquire(h, outcome) ==
    LET g == IF outcome = "global_denied" THEN h.granted ELSE h.granted + 1
        acquired == [h EXCEPT !.acquires = @ + 1, !.granted = g]
    IN  IF outcome # "granted"
        THEN [acquired EXCEPT !.pc = "done", !.result = "RateLimitError"]
        ELSE [acquired EXCEPT !.pc = "send", !.attempt = 0,
                              !.headers = AuthHeaders(h.session_tokens),
                              !.session_tokens =
                                  TouchTokens(h.session_tokens, h.time)]

\* a variant of the retry test that retries whatever the method and however
\* many attempts were made
RetryAllowed_Always(method, attempt, max_retries) == TRUE

\* the test of the except clause: only a GET, and only before its last attempt
RetryAllowed(method, attempt, max_retries) ==
    ~(method # "GET" \/ attempt >= max_retries - 1)

BackoffDelay(attempt) ==
    IF 2^attempt < MaxBackoff THEN 2^attempt ELSE MaxBackoff

TransportFailures == {"timeout", "connect_error"}
SendOutcomes ==
    TransportFailures \cup {"status_ok", "status_auth", "status_error",
                            "other_exception"}

IdleHttp(session_tokens) ==
    [pc |-> "idle", method |-> None, rate_limit_type |-> None,
     max_retries |-> 0, attempt |-> 0, headers |-> None, sends |-> 0,
     acquires |-> 0, backoffs |-> <<>>, last |-> None, result |-> None,
     entry_last_used |-> 0, calls |-> 0, wire |-> 0, granted |-> 0,
     session_tokens |-> session_tokens, time |-> 0]

InitClient ==
    /\ config = CHOOSE c \in Configs : TRUE
    /\ now = StartOfRun
    /\ clock_steps = 0
    /\ preview_cache = [id \in PreviewIds |-> None]
    /\ next_preview_id = 1
    /\ order_count = 0
    /\ order_count_date = NoDate
    /\ tokens = NoTokens
    /\ client_tokens = NoTokens
    /\ call = NoCall
    /\ posted = <<>>
    /\ normalize = NoNormalize
    /\ limiter = NoLimiter
    /\ logins = NoLogins
    /\ ws = NoStream
    /\ \E present \in BOOLEAN :
           http = IdleHttp([present |-> present, last_used_at |-> 0])

ClientFrame ==
    UNCHANGED <<config, now, clock_steps, preview_cache, next_preview_id,
                order_count, order_count_date, tokens, client_tokens, call,
                posted, normalize, limiter, logins, ws>>

\* get(), post(), put() or delete() is called
HttpCall(c) ==
    /\ http.pc \in {"idle", "done"}
    /\ http.calls < MaxRequests
    /\ http' = [http EXCEPT !.pc = "acquire", !.method = c.method,
                            !.rate_limit_type = c.rate_limit_type,
                            !.max_retries = c.max_retries, !.attempt = 0,
                            !.headers = None, !.sends = 0, !.acquires = 0,
                            !.backoffs = <<>>, !.last = None,
                            !.result = None,
                            !.entry_last_used =
                                http.session_tokens.last_used_at,
                            !.calls = @ + 1]
    /\ ClientFrame

\* the limiter answers
HttpAcquire(outcome) ==
    /\ http.pc = "acquire"
    /\ outcome \in AcquireOutcomes(http.rate_limit_type)
    /\ http' = Request_Acquire(http, outcome)
    /\ ClientFrame

\* client.request(): one request goes out
HttpSend ==
    /\ http.pc = "send"
    /\ http' = [http EXCEPT !.pc = "wire", !.sends = @ + 1, !.wire = @ + 1,
                            !.last = None]
    /\ ClientFrame

\* client.request() returns or raises
HttpResponse(outcome) ==
    /\ http.pc = "wire"
    /\ http' =
         CASE outcome = "status_ok" ->
                [http EXCEPT !.pc = "done", !.last = outcome,
                             !.result = "response"]
           [] outcome = "status_auth" ->
                [http EXCEPT !.pc = "done", !.last = outcome,
                             !.result = IF http.attempt = 0
                                        THEN "SESSION_EXPIRED"
                                        ELSE "AUTH_FAILED"]
           [] outcome = "status_error" ->
                [http EXCEPT !.pc = "done", !.last = outcome,
                             !.result = "UpstreamError"]
           [] outcome = "other_exception" ->
                [http EXCEPT !.pc = "done", !.last = outcome,
                             !.result = "TransportError"]
           [] outcome \in TransportFailures ->
                IF RetryAllowed(http.method, http.attempt, http.max_retries)
                THEN [http EXCEPT !.pc = "backoff", !.last = outcome,
                                  !.backoffs =
                                      Append(@, BackoffDelay(http.attempt))]
                ELSE [http EXCEPT !.pc = "done", !.last = outcome,
                                  !.result = "UpstreamError"]
    /\ ClientFrame

\* the backoff sleep is over: the loop goes to its next attempt, or is
\* exhausted
HttpBackoff ==
    /\ http.pc = "backoff"
    /\ LET slept == [http EXCEPT
                       !.time = @ + http.backoffs[Len(http.backoffs)],
                       !.attempt = @ + 1]
       IN  http' = IF slept.attempt < http.max_retries
                   THEN [slept EXCEPT !.pc = "send"]
                   ELSE [slept EXCEPT !.pc = "done",
                                      !.result = "UpstreamError"]
    /\ ClientFrame

\* a second passes
HttpTick ==
    /\ http.pc # "off"
    /\ http.time < MaxClientTime
    /\ http' = [http EXCEPT !.time = @ + 1]
    /\ ClientFrame

NextClient ==
    \/ \E c \in WrapperCalls : HttpCall(c)
    \/ \E outcome \in {"granted", "global_denied", "inner_denied"} :
           HttpAcquire(outcome)
    \/ HttpSend
    \/ \E outcome \in SendOutcomes : HttpResponse(outcome)
    \/ HttpBackoff
    \/ HttpTick

SpecClient == InitClient /\ [][NextClient]_vars

\* ----------------------------------------- TokenBucket, RateLimiter on their own
\* Time is in ticks of 5 ms and tokens are in units of 1/200 token, so that a
\* bucket of rate R tokens per second gains R units per tick.  The buckets
\* keep no absolute time: age is the time since last_refill, elapsed the time
\* since a caller's start_time, both stopping where more makes no difference.
\* A coroutine runs from one await to the next in no time; only the sleep of
\* acquire lets time pass, for 10 ms or longer.

TicksPerSecond == 200
TokenUnits == TicksPerSecond
PollTicks == TicksPerSecond \div 100
NoTimeout == -1
MaxSubscriptions == 40
MaxRecvTimeout == 10
DefaultReconnectAttempts == 3
Callers == 1..MaxCallers

MinOf(a, b) == IF a < b THEN a ELSE b

\* TokenBucket(capacity, refill_rate) holding level tokens
TokenBucket(capacity, refill_rate, level) ==
    [capacity |-> capacity * TokenUnits, refill_rate |-> refill_rate,
     tokens |-> level * TokenUnits, age |-> 0]

\* a variant of the refill that forgets the capacity
Refill_Uncapped(b) ==
    [b EXCEPT !.tokens = b.tokens + b.age * b.refill_rate, !.age = 0]

\* a variant of the refill that restarts the clock and adds nothing
Refill_Stalled(b) == [b EXCEPT !.age = 0]

\* _refill
Refill(b) ==
    [b EXCEPT !.tokens = MinOf(b.capacity, b.tokens + b.age * b.refill_rate),
              !.age = 0]

\* the tokens a refill made now would find
Level(b) == Refill(b).tokens

\* the age at which a refill fills the bucket: more age changes nothing
AgeCap(b) == (b.capacity - b.tokens + b.refill_rate - 1) \div b.refill_rate

GlobalTokenTicks == TicksPerSecond \div 10
Timeouts == {NoTimeout, 0, GlobalTokenTicks - 1}
ElapsedCap == GlobalTokenTicks + PollTicks + MaxOversleep

\* the ticks after which a bucket left alone holds amount; more than any
\* wait that is counted when it never will
TicksUntil(b, amount) ==
    IF Level(b) >= amount THEN 0
    ELSE IF amount > b.capacity THEN ElapsedCap + 1
    ELSE (amount - Level(b) + b.refill_rate - 1) \div b.refill_rate

IdleCaller ==
    [phase |-> "idle", op |-> None, bucket |-> None, inner |-> None,
     amount |-> 0, timeout |-> NoTimeout, elapsed |-> 0, sleep_left |-> 0,
     need |-> 0, result |-> None]

\* a variant of the timeout test that gives up only after a further sleep
TimedOut_Late(timeout, elapsed) ==
    timeout # NoTimeout /\ elapsed >= timeout + PollTicks

\* a variant of the timeout test that never gives up
TimedOut_Never(timeout, elapsed) == FALSE

\* the timeout test of acquire
TimedOut(timeout, elapsed) == timeout # NoTimeout /\ elapsed >= timeout

\* a variant of the turn that takes the tokens there are when it gives up
Turn_DeductOnDenial(l, c) ==
    LET me == l.callers[c]
        b == Refill(l.buckets[me.bucket])
    IN  IF b.tokens >= me.amount
        THEN [l EXCEPT !.buckets[me.bucket] =
                           [b EXCEPT !.tokens = @ - me.amount],
                       !.callers[c] = [me EXCEPT !.phase = "done",
                                                 !.result = "granted"]]
        ELSE IF TimedOut(me.timeout, me.elapsed)
        THEN [l EXCEPT !.buckets[me.bucket] = [b EXCEPT !.tokens = 0],
                       !.callers[c] = [me EXCEPT !.phase = "done",
                                                 !.result = "denied"]]
        ELSE [l EXCEPT !.buckets[me.bucket] = b,
                       !.callers[c] = [me EXCEPT !.phase = "sleep",
                                                 !.sleep_left = PollTicks]]

\* one turn of the loop of acquire by caller c on its bucket: the refill and
\* the grant under the lock, else the timeout test, else the sleep
Turn(l, c) ==
    LET me == l.callers[c]
        b == Refill(l.buckets[me.bucket])
    IN  IF b.tokens >= me.amount
        THEN [l EXCEPT !.buckets[me.bucket] =
                           [b EXCEPT !.tokens = @ - me.amount],
                       !.callers[c] = [me EXCEPT !.phase = "done",
                                                 !.result = "granted"]]
        ELSE IF TimedOut(me.timeout, me.elapsed)
        THEN [l EXCEPT !.buckets[me.bucket] = b,
                       !.callers[c] = [me EXCEPT !.phase = "done",
                                                 !.result = "denied"]]
        ELSE [l EXCEPT !.buckets[me.bucket] = b,
                       !.callers[c] = [me EXCEPT !.phase = "sleep",
                                                 !.sleep_left = PollTicks]]

\* a variant of the composite acquisition that goes on to its own bucket
\* whatever the global bucket answered
Poll_InnerAnyway(l, c) ==
    LET first == Turn(l, c)
        me == first.callers[c]
    IN  IF me.phase = "done" /\ me.inner # None
        THEN Turn([first EXCEPT !.callers[c] =
                      [me EXCEPT !.phase = "enter", !.bucket = me.inner,
                                 !.inner = None, !.result = None,
                                 !.elapsed = 0]], c)
        ELSE first

\* a variant of the composite acquisition that hands the global token back
\* when its own bucket does not grant
Poll_RefundGlobal(l, c) ==
    LET first == Turn(l, c)
        me == first.callers[c]
        out == IF me.result = "granted" /\ me.inner # None
               THEN Turn([first EXCEPT !.callers[c] =
                             [me EXCEPT !.phase = "enter", !.bucket = me.inner,
                                        !.inner = None, !.result = None,
                                        !.elapsed = 0]], c)
               ELSE first
    IN  IF /\ out.callers[c].result = "denied"
           /\ out.callers[c].op \in {"acquire_session", "acquire_trading"}
           /\ out.callers[c].inner = None
        THEN [out EXCEPT !.buckets["global"].tokens =
                             MinOf(out.buckets["global"].capacity,
                                   @ + TokenUnits)]
        ELSE out

\* a turn of the loop, and for a composite acquisition that the global
\* bucket has just granted, the first turn of the acquire on its own bucket,
\* which starts its own clock
Poll(l, c) ==
    LET first == Turn(l, c)
        me == first.callers[c]
    IN  IF me.result = "granted" /\ me.inner # None
        THEN Turn([first EXCEPT !.callers[c] =
                      [me EXCEPT !.phase = "enter", !.bucket = me.inner,
                                 !.inner = None, !.result = None,
                                 !.elapsed = 0]], c)
        ELSE first

\* a caller entering acquire
Entering(l, c, op, bucket, inner, amount, timeout) ==
    [l EXCEPT !.callers[c] =
        [IdleCaller EXCEPT !.phase = "enter", !.op = op, !.bucket = bucket,
                           !.inner = inner, !.amount = amount,
                           !.timeout = timeout,
                           !.need = TicksUntil(l.buckets[bucket], amount)]]

LimiterFrame ==
    UNCHANGED <<config, now, clock_steps, preview_cache, next_preview_id,
                order_count, order_count_date, tokens, client_tokens, call,
                posted, normalize, http, logins, ws>>

\* TokenBucket.acquire(tokens, timeout) up to its first sleep or return
Acquire(c, bucket, amount, timeout) ==
    /\ limiter.callers[c].phase = "idle"
    /\ bucket \in DOMAIN limiter.buckets
    /\ limiter' = Poll(Entering(limiter, c, "acquire", bucket, None,
                                amount * TokenUnits, timeout), c)
    /\ LimiterFrame

\* TokenBucket.try_acquire(tokens)
TryAcquire(c, bucket, amount) ==
    /\ limiter.callers[c].phase = "idle"
    /\ bucket \in DOMAIN limiter.buckets
    /\ LET b == Refill(limiter.buckets[bucket])
           granted == b.tokens >= amount * TokenUnits
           me == [IdleCaller EXCEPT !.phase = "done", !.op = "try_acquire",
                                    !.bucket = bucket,
                                    !.amount = amount * TokenUnits,
                                    !.result = IF granted THEN "granted"
                                               ELSE "denied"]
       IN  limiter' =
             [limiter EXCEPT
                !.buckets[bucket] =
                    IF granted
                    THEN [b EXCEPT !.tokens = @ - amount * TokenUnits]
                    ELSE b,
                !.callers[c] = me]
    /\ LimiterFrame

\* TokenBucket.available_tokens()
AvailableTokens(c, bucket) ==
    /\ limiter.callers[c].phase = "idle"
    /\ bucket \in DOMAIN limiter.buckets
    /\ LET b == Refill(limiter.buckets[bucket])
       IN  limiter' =
             [limiter EXCEPT
                !.buckets[bucket] = b,
                !.callers[c] =
                    [IdleCaller EXCEPT !.phase = "done",
                                       !.op = "available_tokens",
                                       !.bucket = bucket,
                                       !.result = "tokens"]]
    /\ LimiterFrame

\* the sleep of acquire is over: the next turn of its loop
Wake(c) ==
    /\ limiter.callers[c].phase = "sleep"
    /\ limiter.callers[c].sleep_left <= 0
    /\ limiter' = Poll(limiter, c)
    /\ LimiterFrame

\* 5 ms pass while some caller sleeps; a sleep lasts 10 ms, or up to
\* MaxOversleep ticks longer
Tick ==
    /\ limiter.pc = "on"
    /\ \E c \in Callers : limiter.callers[c].phase = "sleep"
    /\ \A c \in Callers :
           limiter.callers[c].phase = "sleep" =>
               limiter.callers[c].sleep_left > -MaxOversleep
    /\ limiter' =
         [limiter EXCEPT
            !.buckets = [n \in DOMAIN limiter.buckets |->
                [limiter.buckets[n] EXCEPT
                    !.age = MinOf(@ + 1, AgeCap(limiter.buckets[n]))]],
            !.callers = [c \in Callers |->
                IF limiter.callers[c].phase = "sleep"
                THEN [limiter.callers[c] EXCEPT
                        !.elapsed = MinOf(@ + 1, ElapsedCap),
                        !.sleep_left = @ - 1]
                ELSE limiter.callers[c]]]
    /\ LimiterFrame

InitOthersForLimiter ==
    /\ config = CHOOSE c \in Configs : TRUE
    /\ now = StartOfRun
    /\ clock_steps = 0
    /\ preview_cache = [id \in PreviewIds |-> None]
    /\ next_preview_id = 1
    /\ order_count = 0
    /\ order_count_date = NoDate
    /\ tokens = NoTokens
    /\ client_tokens = NoTokens
    /\ call = NoCall
    /\ posted = <<>>
    /\ normalize = NoNormalize
    /\ http = NoHttp
    /\ logins = NoLogins
    /\ ws = NoStream

\* one TokenBucket(capacity = 1, refill_rate = 10), found full or just
\* emptied
InitBucket ==
    /\ InitOthersForLimiter
    /\ \E level \in {0, 1} :
           limiter = [pc |-> "on",
                      buckets |-> [n \in {"bucket"} |->
                                      TokenBucket(1, 10, level)],
                      callers |-> [c \in Callers |-> IdleCaller]]

NextBucket ==
    \/ \E c \in Callers, amount \in {1, 2}, timeout \in Timeouts :
           Acquire(c, "bucket", amount, timeout)
    \/ \E c \in Callers, amount \in {1, 2} : TryAcquire(c, "bucket", amount)
    \/ \E c \in Callers : AvailableTokens(c, "bucket")
    \/ \E c \in Callers : Wake(c)
    \/ Tick

SpecBucket == InitBucket /\ [][NextBucket]_vars

\* the event loop runs every coroutine that is ready, and time goes on
SpecBucketFair ==
    /\ SpecBucket
    /\ WF_vars(Tick)
    /\ \A c \in Callers : WF_vars(Wake(c))

\* RateLimiter.acquire_global(timeout)
AcquireGlobal(c, timeout) ==
    /\ limiter.callers[c].phase = "idle"
    /\ limiter' = Poll(Entering(limiter, c, "acquire_global", "global", None,
                                TokenUnits, timeout), c)
    /\ LimiterFrame

\* RateLimiter.acquire_session(timeout): the global bucket, then its own
AcquireSession(c, timeout) ==
    /\ limiter.callers[c].phase = "idle"
    /\ limiter' = Poll(Entering(limiter, c, "acquire_session", "global",
                                "session", TokenUnits, timeout), c)
    /\ LimiterFrame

\* RateLimiter.acquire_trading(timeout): the global bucket, then its own
AcquireTrading(c, timeout) ==
    /\ limiter.callers[c].phase = "idle"
    /\ limiter' = Poll(Entering(limiter, c, "acquire_trading", "global",
                                "trading", TokenUnits, timeout), c)
    /\ LimiterFrame

\* the three buckets of RateLimiter, each found full or just emptied
InitLimiter ==
    /\ InitOthersForLimiter
    /\ \E g \in {0, 10}, s \in {0, 1}, t \in {0, 10} :
           limiter = [pc |-> "on",
                      buckets |-> [global |-> TokenBucket(10, 10, g),
                                   session |-> TokenBucket(1, 1, s),
                                   trading |-> TokenBucket(10, 10, t)],
                      callers |-> [c \in Callers |-> IdleCaller]]

NextLimiter ==
    \/ \E c \in Callers, timeout \in Timeouts \ {NoTimeout} :
           \/ AcquireGlobal(c, timeout)
           \/ AcquireSession(c, timeout)
           \/ AcquireTrading(c, timeout)
    \/ \E c \in Callers : Wake(c)
    \/ Tick

SpecLimiter == InitLimiter /\ [][NextLimiter]_vars

\* ------------------------------------------- SessionManager.login on its own
\* Callers of ensure_logged_in and login on one SessionManager.  A coroutine
\* runs from one await that suspends to the next in no time: login suspends
\* on the login lock when it is held, in the rate limiter when its bucket has
\* no token (the limiter runs on time.monotonic, token expiry on utcnow), and
\* while a request is on the wire.  The scenario is short against the 540 s
\* of a session, so the wall clock stands still at logins.time.

LoginCallers == 1..MaxLoginCallers

InitOthersForLogin ==
    /\ config = CHOOSE c \in Configs : TRUE
    /\ now = StartOfRun
    /\ clock_steps = 0
    /\ preview_cache = [id \in PreviewIds |-> None]
    /\ next_preview_id = 1
    /\ order_count = 0
    /\ order_count_date = NoDate
    /\ tokens = NoTokens
    /\ client_tokens = NoTokens
    /\ call = NoCall
    /\ posted = <<>>
    /\ normalize = NoNormalize
    /\ http = NoHttp
    /\ limiter = NoLimiter
    /\ ws = NoStream

IdleLogin ==
    [phase |-> "idle", op |-> None, force |-> FALSE, switch |-> FALSE,
     result |-> None]

\* a variant of the lock that lets everybody in
LockIsFree_Always(l) == TRUE

\* asyncio.Lock: free when nobody holds it
LockIsFree(l) == l.holder = 0

\* login leaves the lock, with its result or the exception it raised
LeaveLogin(l, c, result) ==
    [l EXCEPT !.holder = IF @ = c THEN 0 ELSE @,
              !.callers[c].phase = "done",
              !.callers[c].result = result,
              !.first = IF @ = None /\ result # "skipped" THEN result ELSE @]

\* the except clause of login
FailLogin(l, c) ==
    LeaveLogin([l EXCEPT !.tokens = NoTokens], c, "failed")

\* client.post("/session") once the limiter granted: the headers carry the
\* tokens there are, which marks them used, and the request goes out
PostSession(l, c) ==
    [l EXCEPT !.tokens = GetAuthHeaders(l.tokens, l.time),
              !.posts = @ + 1,
              !.callers[c].phase = "wire"]

\* login from the moment it holds the lock to its first suspension: the
\* re-check unless forced, then the POST, at once or after a wait in the
\* limiter
LoginLocked(l, c, ready) ==
    LET me == l.callers[c]
        held == [l EXCEPT !.holder = c]
    IN  IF ~me.force /\ l.tokens.present
                     /\ ~TokensIsExpired(l.tokens, l.time)
        THEN LeaveLogin(held, c, "skipped")
        ELSE IF ready THEN PostSession(held, c)
        ELSE [held EXCEPT !.callers[c].phase = "limiter"]

\* login(force): into the lock, or onto its queue
EnterLogin(l, c, op, force, switch, ready) ==
    LET entered == [l EXCEPT !.callers[c] =
                       [IdleLogin EXCEPT !.phase = "wait_lock", !.op = op,
                                         !.force = force,
                                         !.switch = switch]]
    IN  IF LockIsFree(l)
              /\ \A d \in LoginCallers : l.callers[d].phase # "wait_lock"
        THEN LoginLocked(entered, c, ready)
        ELSE entered

LoginFrame ==
    UNCHANGED <<config, now, clock_steps, preview_cache, next_preview_id,
                order_count, order_count_date, tokens, client_tokens, call,
                posted, normalize, http, limiter, ws>>

\* SessionManager.ensure_logged_in()
CallEnsureLoggedIn(c, ready) ==
    /\ logins.callers[c].phase = "idle"
    /\ logins' =
         IF ~logins.tokens.present
         THEN EnterLogin(logins, c, "ensure_logged_in", FALSE, FALSE, ready)
         ELSE IF TokensIsExpired(logins.tokens, logins.time)
         THEN EnterLogin(logins, c, "ensure_logged_in", TRUE, FALSE, ready)
         ELSE [logins EXCEPT !.callers[c] =
                  [IdleLogin EXCEPT !.phase = "done",
                                    !.op = "ensure_logged_in",
                                    !.result = "valid"]]
    /\ LoginFrame

\* SessionManager.login(force, account_id), as cap_session_login calls it
CallLogin(c, force, switch, ready) ==
    /\ logins.callers[c].phase = "idle"
    /\ logins' = EnterLogin(logins, c, "login", force, switch, ready)
    /\ LoginFrame

\* the lock is handed to a caller that waited for it
LockAcquired(c, ready) ==
    /\ logins.callers[c].phase = "wait_lock"
    /\ LockIsFree(logins)
    /\ logins' = LoginLocked(logins, c, ready)
    /\ LoginFrame

\* the limiter answers a login that waited in it
LimiterAnswers(c, granted) ==
    /\ logins.callers[c].phase = "limiter"
    /\ logins' = IF granted THEN PostSession(logins, c)
                 ELSE FailLogin(logins, c)
    /\ LoginFrame

\* the broker answers POST /session: with both tokens, or not
LoginResponse(c, outcome) ==
    /\ logins.callers[c].phase = "wire"
    /\ logins' =
         IF outcome # "ok" THEN FailLogin(logins, c)
         ELSE LET stored == [logins EXCEPT !.tokens = FreshTokens(logins.time)]
              IN  IF logins.callers[c].switch
                  THEN [stored EXCEPT !.callers[c].phase = "switch"]
                  ELSE LeaveLogin(stored, c, "ok")
    /\ LoginFrame

\* switch_account inside login: PUT /session is answered, or fails
SwitchResponse(c, outcome) ==
    /\ logins.callers[c].phase = "switch"
    /\ logins' = IF outcome = "ok"
                 THEN LeaveLogin([logins EXCEPT !.tokens =
                                     GetAuthHeaders(@, logins.time)], c, "ok")
                 ELSE FailLogin(logins, c)
    /\ LoginFrame

\* a SessionManager without tokens, with tokens last used 540 s ago, or with
\* tokens just used
InitLogin ==
    /\ InitOthersForLogin
    /\ \E tok \in {NoTokens, FreshTokens(0), FreshTokens(SessionMaxAge)} :
           logins = [pc |-> "on", time |-> SessionMaxAge, tokens |-> tok,
                     holder |-> 0, posts |-> 0, first |-> None,
                     callers |-> [c \in LoginCallers |-> IdleLogin]]

NextLogin ==
    \/ \E c \in LoginCallers, ready \in BOOLEAN : CallEnsureLoggedIn(c, ready)
    \/ \E c \in LoginCallers, force \in BOOLEAN, switch \in BOOLEAN,
          ready \in BOOLEAN : CallLogin(c, force, switch, ready)
    \/ \E c \in LoginCallers, ready \in BOOLEAN : LockAcquired(c, ready)
    \/ \E c \in LoginCallers, granted \in BOOLEAN : LimiterAnswers(c, granted)
    \/ \E c \in LoginCallers, outcome \in {"ok", "failed"} :
           LoginResponse(c, outcome)
    \/ \E c \in LoginCallers, outcome \in {"ok", "failed"} :
           SwitchResponse(c, outcome)

SpecLogin == InitLogin /\ [][NextLogin]_vars

\* ---------------------------------------------- one bucket over a window
\* One of the buckets of RateLimiter from some moment on: every attempt of
\* every acquirer is a refill and a grant or a denial under the bucket's
\* lock, so the acquirers together are a sequence of attempts at times of
\* their choosing.  time is the length of the window so far, in ticks,
\* granted the tokens granted in it.

WindowSteps == {TicksPerSecond \div 10, TicksPerSecond}

\* acquire or try_acquire under the lock: the refill, and the grant if the
\* tokens are there
WindowAttempt(amount) ==
    /\ limiter.pc = "window"
    /\ LET b == Refill(limiter.bucket)
           granted == b.tokens >= amount * TokenUnits
       IN  limiter' =
             [limiter EXCEPT
                !.bucket = IF granted
                           THEN [b EXCEPT !.tokens = @ - amount * TokenUnits]
                           ELSE b,
                !.granted = IF granted THEN @ + amount * TokenUnits ELSE @]
    /\ LimiterFrame

\* time passes
WindowTick(d) ==
    /\ limiter.pc = "window"
    /\ limiter.time + d <= MaxWindowTicks
    /\ limiter' = [limiter EXCEPT !.time = @ + d, !.bucket.age = @ + d]
    /\ LimiterFrame

\* the bucket as the window finds it: the global (or trading) bucket or the
\* session bucket, full or empty, just refilled or left alone for a second
InitWindow ==
    /\ InitOthersForLimiter
    /\ \E shape \in {<<10, 10>>, <<1, 1>>}, full \in BOOLEAN,
          age \in {0, TicksPerSecond} :
           limiter = [pc |-> "window",
                      bucket |-> [TokenBucket(shape[1], shape[2],
                                              IF full THEN shape[1] ELSE 0)
                                     EXCEPT !.age = age],
                      time |-> 0, granted |-> 0]

NextWindow ==
    \/ \E amount \in {1, 2} : WindowAttempt(amount)
    \/ \E d \in WindowSteps : WindowTick(d)

SpecWindow == InitWindow /\ [][NextWindow]_vars

\* ------------------------------------ SessionManager, one operation at a time
\* login, ensure_logged_in, logout and authenticated requests called one
\* after the other, each with whatever the limiter and the broker answer, on
\* a wall clock that moves between the calls.  SessionManager.tokens and
\* CapitalClient.session_tokens are one object when both are set, so marking
\* the one as used marks the other.  since is the time of the login that got
\* the tokens held, last_attach the time they were last put on a request.

SessionClockSteps == {40, 500}
Accounts == {"A", "B"}

AbsentTokens == [present |-> FALSE, last_used_at |-> 0, cst |-> 0]
SessionTokens(cst, t) == [present |-> TRUE, last_used_at |-> t, cst |-> cst]

\* what a request of the login sequence can come to: refused by the limiter
\* (nothing sent), sent and failed, sent and answered without a token (the
\* POST only), sent and answered in full
LoginPostOutcomes == {"rate_limited", "upstream_error", "missing_token", "ok"}
SwitchOutcomes == {"rate_limited", "upstream_error", "ok"}

NoOperation ==
    [op |-> None, force |-> FALSE, target |-> None, held |-> FALSE,
     result |-> None, sent |-> <<>>]

\* a variant of the test under the lock that never finds a session
AlreadyActive_Never(tok, force, t) == FALSE

\* login under the lock: the session is still valid and no login was forced
AlreadyActive(tok, force, t) ==
    ~force /\ tok.present /\ ~TokensIsExpired(tok, t)

\* a variant of the except clause of login that keeps what it has
LoginFailed_KeepTokens(s) == s

\* a variant of the except clause of login that forgets the client
LoginFailed_ClientKept(s) == [s EXCEPT !.tokens = AbsentTokens]

\* the except clause of login
LoginFailed(s) ==
    [s EXCEPT !.tokens = AbsentTokens, !.client_tokens = AbsentTokens]

\* _get_auth_headers on the client of a SessionManager
Attach(s) ==
    IF s.client_tokens.present
    THEN [s EXCEPT !.client_tokens = GetAuthHeaders(@, s.time),
                   !.tokens = IF @.present THEN GetAuthHeaders(@, s.time)
                              ELSE @,
                   !.last_attach = s.time]
    ELSE s

Ended(s, result, sent) ==
    [s EXCEPT !.last.result = result, !.last.sent = sent]

\* SessionManager.login(force, account_id): post is what POST /session came
\* to, switch what the PUT /session of switch_account came to; the broker
\* reports account A as the current one
SessionLogin(s, force, target, post, switch) ==
    IF AlreadyActive(s.tokens, force, s.time)
    THEN Ended(s, "already_active", <<>>)
    ELSE IF post = "rate_limited"
    THEN Ended(LoginFailed(s), "RateLimitError", <<>>)
    ELSE LET posted_ == [Attach(s) EXCEPT !.posts = @ + 1]
         IN  IF post = "upstream_error"
             THEN Ended(LoginFailed(posted_), "UpstreamError",
                        <<"POST /session">>)
             ELSE IF post = "missing_token"
             THEN Ended(LoginFailed(posted_), "SessionError",
                        <<"POST /session">>)
             ELSE LET fresh == SessionTokens(posted_.posts, s.time)
                      stored == [posted_ EXCEPT !.tokens = fresh,
                                                !.client_tokens = fresh,
                                                !.account_id = "A",
                                                !.since = s.time,
                                                !.last_attach = s.time]
                  IN  IF target = None \/ target = stored.account_id
                      THEN Ended(stored, "ok", <<"POST /session">>)
                      ELSE IF switch = "rate_limited"
                      THEN Ended(LoginFailed(stored), "RateLimitError",
                                 <<"POST /session">>)
                      ELSE IF switch = "upstream_error"
                      THEN Ended(LoginFailed(Attach(stored)), "UpstreamError",
                                 <<"POST /session", "PUT /session">>)
                      ELSE Ended([Attach(stored) EXCEPT
                                     !.account_id = target],
                                 "ok", <<"POST /session", "PUT /session">>)

\* SessionManager.ensure_logged_in()
SessionEnsureLoggedIn(s, post) ==
    IF ~s.tokens.present THEN SessionLogin(s, FALSE, None, post, "ok")
    ELSE IF TokensIsExpired(s.tokens, s.time)
    THEN SessionLogin([s EXCEPT !.last.force = TRUE], TRUE, None, post, "ok")
    ELSE Ended(s, "valid", <<>>)

\* a variant of logout that clears only after a DELETE that went well
SessionLogout_KeepOnFailure(s, delete) ==
    IF ~s.tokens.present THEN Ended(s, "nothing", <<>>)
    ELSE IF delete = "ok"
    THEN Ended([Attach(s) EXCEPT !.tokens = AbsentTokens,
                                 !.account_id = None,
                                 !.client_tokens = AbsentTokens],
               "ok", <<"DELETE /session">>)
    ELSE IF delete = "rate_limited"
    THEN Ended(s, "warning", <<>>)
    ELSE Ended(Attach(s), "warning", <<"DELETE /session">>)

\* SessionManager.logout(): delete is what DELETE /session came to; a failure
\* is logged as a warning and the call returns
SessionLogout(s, delete) ==
    IF ~s.tokens.present THEN Ended(s, "nothing", <<>>)
    ELSE LET cleared(x) == [x EXCEPT !.tokens = AbsentTokens,
                                     !.account_id = None,
                                     !.client_tokens = AbsentTokens]
         IN  IF delete = "rate_limited"
             THEN Ended(cleared(s), "warning", <<>>)
             ELSE Ended(cleared(Attach(s)),
                        IF delete = "ok" THEN "ok" ELSE "warning",
                        <<"DELETE /session">>)

\* tokens are held and have not expired
HoldsSession(s) == s.tokens.present /\ ~TokensIsExpired(s.tokens, s.time)

Called(op, force, target) ==
    [logins EXCEPT !.last = [NoOperation EXCEPT !.op = op, !.force = force,
                                                !.target = target,
                                                !.held = HoldsSession(logins)]]

\* cap_session_login(force, account_id)
DoLogin(force, target, post, switch) ==
    /\ logins.pc = "session"
    /\ logins.posts < MaxLogins
    /\ logins' = SessionLogin(Called("login", force, target), force, target,
                              post, switch)
    /\ LoginFrame

\* a tool calls ensure_logged_in()
DoEnsureLoggedIn(post) ==
    /\ logins.pc = "session"
    /\ logins.posts < MaxLogins
    /\ logins' = SessionEnsureLoggedIn(
                     Called("ensure_logged_in", FALSE, None), post)
    /\ LoginFrame

\* cap_session_logout
DoLogout(delete) ==
    /\ logins.pc = "session"
    /\ logins' = SessionLogout(Called("logout", FALSE, None), delete)
    /\ LoginFrame

RequestOutcomes == {"ok", "auth_error", "upstream_error"}

\* a variant of request that drops the tokens the broker refused
SessionRequest_ClearOnAuthError(s, outcome) ==
    IF outcome = "auth_error"
    THEN Ended(LoginFailed(Attach(s)), "SessionError", <<"GET">>)
    ELSE Ended(Attach(s), IF outcome = "ok" THEN "sent" ELSE "UpstreamError",
               <<"GET">>)

\* CapitalClient.request once the limiter granted it: the headers are made,
\* the request is sent, and 401/403 raises SessionError, any other status
\* from 400 on UpstreamError
SessionRequest(s, outcome) ==
    Ended(Attach(s),
          CASE outcome = "ok" -> "sent"
            [] outcome = "auth_error" -> "SessionError"
            [] OTHER -> "UpstreamError",
          <<"GET">>)

\* a tool's request through the client
DoRequest(outcome) ==
    /\ logins.pc = "session"
    /\ logins' = SessionRequest(Called("request", FALSE, None), outcome)
    /\ LoginFrame

\* the wall clock moves between two calls
SessionClock(d) ==
    /\ logins.pc = "session"
    /\ logins.time + d <= MaxSessionClock
    /\ logins' = [logins EXCEPT !.time = @ + d, !.last = NoOperation]
    /\ LoginFrame

InitSession ==
    /\ InitOthersForLogin
    /\ logins = [pc |-> "session", time |-> 0, tokens |-> AbsentTokens,
                 client_tokens |-> AbsentTokens, account_id |-> None,
                 posts |-> 0, since |-> 0, last_attach |-> 0,
                 last |-> NoOperation]

NextSession ==
    \/ \E force \in BOOLEAN, target \in Accounts \cup {None},
          post \in LoginPostOutcomes, switch \in SwitchOutcomes :
           DoLogin(force, target, post, switch)
    \/ \E post \in LoginPostOutcomes : DoEnsureLoggedIn(post)
    \/ \E delete \in SwitchOutcomes : DoLogout(delete)
    \/ \E outcome \in RequestOutcomes : DoRequest(outcome)
    \/ \E d \in SessionClockSteps : SessionClock(d)

SpecSession == InitSession /\ [][NextSession]_vars

\* ------------------------------------- SessionManager, tasks interleaved

\* Several tasks call login and logout on one SessionManager. A step is what
\* a task runs between two awaits, so every state is a point where another
\* task can run. The wall clock stands still: the headers a request carries
\* touch the one token object both fields name, which changes neither.
SessionTasks == 1..MaxLoginCallers

\* login once it holds _login_lock, up to the await of POST /session
TaskLoginLocked(s, c) ==
    IF AlreadyActive(s.tokens, s.tasks[c].force, s.time)
    THEN [s EXCEPT !.tasks[c].phase = "idle"]
    ELSE [s EXCEPT !.holder = c, !.posts = @ + 1, !.tasks[c].phase = "post"]

\* a task calls login(force, account_id): into the lock or onto its queue
TaskLogin(c, force, switch) ==
    /\ logins.pc = "tasks"
    /\ logins.tasks[c].phase = "idle"
    /\ logins.posts < MaxLogins
    /\ LET entered == [logins EXCEPT !.tasks[c] =
                          [phase |-> "wait_lock", force |-> force,
                           switch |-> switch]]
       IN  logins' = IF LockIsFree(logins) THEN TaskLoginLocked(entered, c)
                     ELSE entered
    /\ LoginFrame

\* a task calls logout(): nothing to do without tokens, else up to the await
\* of DELETE /session
TaskLogout(c) ==
    /\ logins.pc = "tasks"
    /\ logins.tasks[c].phase = "idle"
    /\ logins.tokens.present
    /\ logins' = [logins EXCEPT !.tasks[c].phase = "delete"]
    /\ LoginFrame

\* the await a task is suspended in returns or raises, and the task runs to
\* its next await or to its end
TaskResumes(c, outcome) ==
    /\ logins.pc = "tasks"
    /\ LET me == logins.tasks[c]
           left(s) == [s EXCEPT !.holder = 0, !.tasks[c].phase = "idle"]
       IN  CASE me.phase = "wait_lock" ->
                  /\ LockIsFree(logins)
                  /\ logins.posts < MaxLogins
                  /\ outcome = "ok"
                  /\ logins' = TaskLoginLocked(logins, c)
             [] me.phase = "post" ->
                  IF outcome # "ok" THEN logins' = left(LoginFailed(logins))
                  ELSE LET fresh == SessionTokens(logins.posts, logins.time)
                           stored == [logins EXCEPT
                                         !.tokens = fresh,
                                         !.client_tokens = fresh,
                                         !.account_id = "A"]
                       IN  logins' = IF me.switch
                                     THEN [stored EXCEPT
                                              !.tasks[c].phase = "switch"]
                                     ELSE left(stored)
             [] me.phase = "switch" ->
                  logins' = IF outcome = "ok" /\ logins.tokens.present
                            THEN left([logins EXCEPT !.account_id = "B"])
                            ELSE left(LoginFailed(logins))
             [] me.phase = "delete" ->
                  logins' = [logins EXCEPT !.tokens = AbsentTokens,
                                           !.account_id = None,
                                           !.client_tokens = AbsentTokens,
                                           !.tasks[c].phase = "idle"]
             [] OTHER -> FALSE
    /\ LoginFrame

InitTasks ==
    /\ InitOthersForLogin
    /\ logins = [pc |-> "tasks", time |-> 0, tokens |-> AbsentTokens,
                 client_tokens |-> AbsentTokens, account_id |-> None,
                 posts |-> 0, holder |-> 0,
                 tasks |-> [c \in SessionTasks |->
                               [phase |-> "idle", force |-> FALSE,
                                switch |-> FALSE]]]

NextTasks ==
    \/ \E c \in SessionTasks, force \in BOOLEAN, switch \in BOOLEAN :
           TaskLogin(c, force, switch)
    \/ \E c \in SessionTasks : TaskLogout(c)
    \/ \E c \in SessionTasks, outcome \in {"ok", "failed"} :
           TaskResumes(c, outcome)

SpecTasks == InitTasks /\ [][NextTasks]_vars

\* --------------------------------------------------------- WebSocketClient
\* One WebSocketClient and the task that uses it: connect, subscribe, stream,
\* close.  conn is "none" while _ws is None, "open" while the connection
\* works and "dead" once it is lost with _ws still set; remote is what the
\* broker has subscribed on the connection; time is counted in seconds from
\* the start of the stream.  The keep-alive only sets _last_ping and is left
\* out.

Durations == {2, MaxDuration}
ReconnectAttempts == {1, DefaultReconnectAttempts}
Requests == {1 .. 2, 1 .. 25, 26 .. MaxEpics, 1 .. (MaxSubscriptions + 1)}
ConnectOutcomes == {"ok", "SessionError", "UpstreamError"}

\* what the last connect() did and came to
NoConnect == [result |-> None, steps |-> <<>>]

IdleStream ==
    [pc |-> "idle", conn |-> "none", subscribed |-> {}, remote |-> {},
     duration |-> 0, attempts |-> 0, elapsed |-> 0, reconnect_count |-> 0,
     at_loss |-> {}, last_tick_at |-> -1, outcome |-> None, last |-> None,
     enabled |-> TRUE, connect_call |-> NoConnect, reconnects |-> 0]

\* the first n of a list of epics
FirstN(epics, n) ==
    {e \in epics : Cardinality({x \in epics : x < e}) < n}

\* close()
WsClose(w) ==
    IF w.conn # "none"
    THEN [w EXCEPT !.conn = "none", !.subscribed = {}, !.remote = {},
                   !.last = "ok"]
    ELSE [w EXCEPT !.last = "ok"]

Connected(w, result, steps) ==
    [w EXCEPT !.last = result,
              !.connect_call = [result |-> result, steps |-> steps]]

\* a variant of connect() that looks at cap_ws_enabled after the session
WsConnect_SessionFirst(w, outcome) ==
    IF outcome = "SessionError" \/ ~w.enabled
    THEN Connected(w, "SessionError", <<"ensure_logged_in">>)
    ELSE IF outcome = "UpstreamError"
    THEN Connected(w, "UpstreamError", <<"ensure_logged_in", "connect">>)
    ELSE Connected([w EXCEPT !.conn = "open", !.remote = {}], "ok",
                   <<"ensure_logged_in", "connect">>)

\* connect(): disabled streaming is a SessionError; then ensure_logged_in,
\* and no session after it is a SessionError; then the connection is opened,
\* and a failure to open it is an UpstreamError
WsConnect(w, outcome) ==
    IF ~w.enabled THEN Connected(w, "SessionError", <<>>)
    ELSE IF outcome = "SessionError"
    THEN Connected(w, "SessionError", <<"ensure_logged_in">>)
    ELSE IF outcome = "UpstreamError"
    THEN Connected(w, "UpstreamError", <<"ensure_logged_in", "connect">>)
    ELSE Connected([w EXCEPT !.conn = "open", !.remote = {}], "ok",
                   <<"ensure_logged_in", "connect">>)

\* subscribe(epics): the connection takes n directives before it fails
WsSubscribe(w, epics, n) ==
    IF Cardinality(epics) > MaxSubscriptions
    THEN [w EXCEPT !.last = "ValueError"]
    ELSE IF w.conn = "none" THEN [w EXCEPT !.last = "SessionError"]
    ELSE LET taken == IF w.conn = "dead" THEN 0
                      ELSE MinOf(n, Cardinality(epics))
             added == FirstN(epics, taken)
         IN  IF taken = Cardinality(epics)
             THEN [w EXCEPT !.subscribed = @ \cup added,
                            !.remote = @ \cup added, !.last = "ok"]
             ELSE [w EXCEPT !.subscribed = @ \cup added,
                            !.remote = @ \cup added, !.conn = "dead",
                            !.last = "UpstreamError"]

\* unsubscribe(epics): an epic leaves the set after its directive was sent;
\* a directive that cannot be sent is logged and the epic stays
WsUnsubscribe(w, epics, lost) ==
    IF w.conn = "none" \/ epics \cap w.subscribed = {}
    THEN [w EXCEPT !.last = "ok"]
    ELSE IF w.conn = "dead" \/ lost
    THEN [w EXCEPT !.conn = "dead", !.last = "ok"]
    ELSE [w EXCEPT !.subscribed = @ \ epics, !.remote = @ \ epics,
                   !.last = "ok"]

\* a variant that takes the list to restore after close() emptied the set
RestoreList_AfterClose(w) == {}

\* stream(): epics_to_restore
RestoreList(w) == w.subscribed

\* stream(): the finally clause, then the generator ends
StreamEnds(w, outcome, lost) ==
    LET u == IF w.subscribed # {}
             THEN WsUnsubscribe(w, w.subscribed, lost) ELSE w
    IN  [u EXCEPT !.pc = "ended", !.outcome = outcome, !.last = outcome]

\* a variant of the resumed loop that starts counting afresh
Resumed_CountReset(w) ==
    [w EXCEPT !.pc = "loop", !.last = None, !.reconnect_count = 0]

\* stream(): "Reconnection successful", and the loop goes on
Resumed(w) == [w EXCEPT !.pc = "loop", !.last = None]

StreamFrame ==
    UNCHANGED <<config, now, clock_steps, preview_cache, next_preview_id,
                order_count, order_count_date, tokens, client_tokens, call,
                posted, normalize, http, limiter, logins>>

\* async with: connect()
DoConnect(outcome) ==
    /\ ws.pc = "idle"
    /\ ws' = WsConnect(ws, outcome)
    /\ StreamFrame

\* subscribe(epics), also from another task while the stream backs off
DoSubscribe(epics, n) ==
    /\ ws.pc \in {"idle", "backoff"}
    /\ ws' = WsSubscribe(ws, epics, n)
    /\ StreamFrame

\* unsubscribe(epics), also from another task while the stream backs off
DoUnsubscribe(epics, lost) ==
    /\ ws.pc \in {"idle", "backoff"}
    /\ ws' = WsUnsubscribe(ws, epics, lost)
    /\ StreamFrame

\* close(), at any time outside a stream
DoClose ==
    /\ ws.pc \in {"idle", "ended"}
    /\ ws' = [WsClose(ws) EXCEPT !.pc = "idle", !.duration = 0,
                                 !.attempts = 0, !.elapsed = 0,
                                 !.reconnect_count = 0, !.at_loss = {},
                                 !.last_tick_at = -1, !.outcome = None,
                                 !.connect_call = NoConnect,
                                 !.reconnects = 0]
    /\ StreamFrame

\* stream(duration, reconnect_attempts) is started
StreamStart(duration, attempts) ==
    /\ ws.pc = "idle"
    /\ ws' = IF ws.conn = "none" THEN [ws EXCEPT !.last = "SessionError"]
             ELSE [ws EXCEPT !.pc = "loop", !.duration = duration,
                             !.attempts = attempts, !.elapsed = 0,
                             !.reconnect_count = 0, !.at_loss = {},
                             !.last_tick_at = -1, !.outcome = None,
                             !.last = None, !.reconnects = 0]
    /\ StreamFrame

\* one turn of the loop after the deadline: break, and the finally clause
StreamDeadline(lost) ==
    /\ ws.pc = "loop"
    /\ ws.elapsed >= ws.duration
    /\ ws' = StreamEnds(ws, "normal", lost)
    /\ StreamFrame

\* one turn of the loop before the deadline: after d seconds a tick arrives
\* and is yielded, or the wait times out, or the connection is found closed
StreamReceive(event, d) ==
    /\ ws.pc = "loop"
    /\ ws.elapsed < ws.duration
    /\ LET timeout == MinOf(ws.duration - ws.elapsed, MaxRecvTimeout)
       IN  \/ /\ event = "tick"
              /\ ws.conn = "open"
              /\ d < timeout
              /\ ws' = [ws EXCEPT !.elapsed = @ + d,
                                  !.last_tick_at = ws.elapsed + d]
           \/ /\ event = "quiet"
              /\ ws.conn = "open"
              /\ d = 0
              /\ ws' = [ws EXCEPT !.elapsed = @ + timeout]
           \/ /\ event = "closed"
              /\ d < timeout
              /\ ws.conn = "dead" => d = 0
              /\ LET lost == [ws EXCEPT !.conn = "dead", !.elapsed = @ + d]
                 IN  ws' = IF ws.reconnect_count < ws.attempts
                           THEN [lost EXCEPT !.reconnect_count = @ + 1,
                                             !.at_loss = ws.subscribed,
                                             !.pc = "backoff"]
                           ELSE StreamEnds(lost, "UpstreamError", FALSE)
    /\ StreamFrame

\* the rest of the turn that found the connection closed: the backoff sleep,
\* close(), connect() and subscribe(epics_to_restore); reconnects counts the
\* reconnections this stream went into
StreamReconnect(outcome, n) ==
    /\ ws.pc = "backoff"
    /\ LET slept == [ws EXCEPT !.elapsed = @ + 2 ^ ws.reconnect_count,
                               !.reconnects = @ + 1]
           epics_to_restore == RestoreList(slept)
           connected == WsConnect(WsClose(slept), outcome)
           restored == WsSubscribe(connected, epics_to_restore, n)
       IN  ws' = IF outcome # "ok" THEN StreamEnds(connected, outcome, FALSE)
                 ELSE IF restored.last # "ok"
                 THEN StreamEnds(restored, restored.last, FALSE)
                 ELSE Resumed(restored)
    /\ StreamFrame

InitOthersForStream ==
    /\ config = CHOOSE c \in Configs : TRUE
    /\ now = StartOfRun
    /\ clock_steps = 0
    /\ preview_cache = [id \in PreviewIds |-> None]
    /\ next_preview_id = 1
    /\ order_count = 0
    /\ order_count_date = NoDate
    /\ tokens = NoTokens
    /\ client_tokens = NoTokens
    /\ call = NoCall
    /\ posted = <<>>
    /\ normalize = NoNormalize
    /\ http = NoHttp
    /\ limiter = NoLimiter
    /\ logins = NoLogins

InitStream ==
    /\ InitOthersForStream
    /\ \E enabled \in BOOLEAN : ws = [IdleStream EXCEPT !.enabled = enabled]

NextStream ==
    \/ \E outcome \in ConnectOutcomes : DoConnect(outcome)
    \/ \E epics \in Requests, n \in {0, 1, MaxSubscriptions} :
           DoSubscribe(epics, n)
    \/ \E epics \in Requests, lost \in BOOLEAN : DoUnsubscribe(epics, lost)
    \/ DoClose
    \/ \E duration \in Durations, attempts \in ReconnectAttempts :
           StreamStart(duration, attempts)
    \/ \E lost \in BOOLEAN : StreamDeadline(lost)
    \/ \E event \in {"tick", "quiet", "closed"}, d \in {0, 1} :
           StreamReceive(event, d)
    \/ \E outcome \in ConnectOutcomes, n \in {0, 1, MaxSubscriptions} :
           StreamReconnect(outcome, n)

SpecStream == InitStream /\ [][NextStream]_vars

\* --------------------------------------------------- poll_until on its own

\* _wait_for_confirmation polls GET /confirms/{dealReference} through
\* poll_until. Time is in tenths of a second. A poll takes time on the wire;
\* the pause between two polls may be none.
InitialDelay == 2
DefaultPollInterval == 5
PollTimeouts == {0, 6, MaxPollTimeout}
PollIntervals == {0, DefaultPollInterval}
PollDurations == {1, 4}
PollOutcomes == {"ACCEPTED", "REJECTED", "PENDING", "error"}

\* a variant of is_complete that waits for an acceptance
IsComplete_AcceptedOnly(status) == status = "ACCEPTED"

\* is_complete: the confirmation carries a final status
IsComplete(status) == status \in {"ACCEPTED", "REJECTED"}

PollFrame ==
    UNCHANGED <<config, now, clock_steps, preview_cache, next_preview_id,
                order_count, order_count_date, tokens, client_tokens, call,
                posted, normalize, limiter, logins, ws>>

\* poll_until is entered: the start time is taken and the initial delay slept
PollStart ==
    /\ http.pc = "start"
    /\ http' = [http EXCEPT !.pc = "loop", !.elapsed = @ + InitialDelay]
    /\ PollFrame

\* one turn of the loop: past the deadline poll_until returns None and
\* _wait_for_confirmation raises TimeoutError; else fn() is awaited for d and
\* comes to outcome, a complete result is returned, and after any other, or
\* an exception, the interval is slept
PollTurn(outcome, d) ==
    /\ http.pc = "loop"
    /\ http' =
         IF http.elapsed >= http.timeout
         THEN [http EXCEPT !.pc = "done", !.result = "TimeoutError"]
         ELSE LET polled == [http EXCEPT !.elapsed = @ + d,
                                         !.seen = Append(@, outcome)]
              IN  IF outcome # "error" /\ IsComplete(outcome)
                  THEN [polled EXCEPT !.pc = "done", !.result = outcome]
                  ELSE [polled EXCEPT !.elapsed = @ + http.interval,
                                      !.attempt = @ + 1]
    /\ PollFrame

InitPoll ==
    /\ config = CHOOSE c \in Configs : TRUE
    /\ now = StartOfRun
    /\ clock_steps = 0
    /\ preview_cache = [id \in PreviewIds |-> None]
    /\ next_preview_id = 1
    /\ order_count = 0
    /\ order_count_date = NoDate
    /\ tokens = NoTokens
    /\ client_tokens = NoTokens
    /\ call = NoCall
    /\ posted = <<>>
    /\ normalize = NoNormalize
    /\ limiter = NoLimiter
    /\ logins = NoLogins
    /\ ws = NoStream
    /\ \E timeout \in PollTimeouts, interval \in PollIntervals :
           http = [pc |-> "start", timeout |-> timeout,
                   interval |-> interval, elapsed |-> 0, attempt |-> 0,
                   seen |-> <<>>, result |-> None]

NextPoll ==
    \/ PollStart
    \/ \E outcome \in PollOutcomes, d \in PollDurations : PollTurn(outcome, d)

\* the event loop runs the coroutine whenever it can go on
SpecPoll == InitPoll /\ [][NextPoll]_vars /\ WF_vars(NextPoll)

\* ------------------------------------------------------------------ claims
\* the requests a call has put on the wire
Sent(c) == { c.sent[i] : i \in 1 .. Len(c.sent) }
NumTradeRequests(c) ==
    Cardinality({ i \in 1 .. Len(c.sent) : c.sent[i] \in MutatingTradeRequests })
SentTrade(c) == NumTradeRequests(c) > 0

ConfigRefusals == {"TRADING_DISABLED", "DRY_RUN_ENABLED", "CONFIRM_REQUIRED"}

\* the configuration lets a trade through
ConfigPermits(cfg, confirm) ==
    /\ cfg.cap_allow_trading
    /\ ~cfg.cap_dry_run
    /\ cfg.cap_require_explicit_confirm => confirm

\* preview_id is in the cache, younger than the TTL, with all checks passed
ValidPreview(cache, preview_id, t) ==
    /\ preview_id \in DOMAIN cache
    /\ t - cache[preview_id].created_at < PreviewTTL
    /\ cache[preview_id].result.all_checks_passed

\* a trade tool leaves its synchronous guard stretch in this step
GuardStep == call.pc = "run" /\ call.op \in TradeOps /\ call'.pc # "run"

\* C1: a mutating trade request (POST /positions, POST /workingorders,
\* DELETE /positions/{id}, DELETE /workingorders/{id}) goes on the wire only
\* from a call that is past its guards, and a call gets past its guards only in
\* a step in which the configuration permits the trade (trading allowed, not
\* dry-run, confirmation given if required) and, for the execute tools, the
\* preview id it was called with is in the cache, unexpired, with all checks
\* passed.
C1_TradeRequestOnlyAfterGuards ==
    [][ /\ NumTradeRequests(call') > NumTradeRequests(call) =>
              /\ call.pc = "post"
              /\ call'.sent = Append(call.sent, TradeRequest(call.op))
        /\ (call'.pc = "post" /\ call.pc # "post") =>
              /\ call.pc = "run"
              /\ call.op \in TradeOps
              /\ call' = [call EXCEPT !.pc = "post", !.request = call'.request]
              /\ ConfigPermits(config, call.confirm)
              /\ call.op \in ExecuteOps =>
                    ValidPreview(preview_cache, call.preview_id, now)
      ]_vars

\* C1 happens: an execute tool has its POST on the wire
C1_Witness ==
    /\ call.pc = "inflight"
    /\ call.op = "execute_position"
    /\ call.sent[Len(call.sent)] = "POST /positions"

\* C2: a preview is consumed by the execute that submits it, so no preview id
\* ever has more than one order POST put on the wire.
C2_PreviewSubmittedAtMostOnce == \A p \in PreviewIds : posted[p] <= 1

\* the guard that refuses first, in the order trading disabled, dry-run,
\* confirmation missing, then (a preview id given) preview missing, expired,
\* failed
FirstRefusal(cfg, confirm, preview_id, cache, t) ==
    IF ~cfg.cap_allow_trading THEN "TRADING_DISABLED"
    ELSE IF cfg.cap_dry_run THEN "DRY_RUN_ENABLED"
    ELSE IF cfg.cap_require_explicit_confirm /\ ~confirm THEN "CONFIRM_REQUIRED"
    ELSE IF preview_id \in {NoId, EmptyId} THEN "OK"
    ELSE IF preview_id \notin DOMAIN cache THEN "PREVIEW_NOT_FOUND"
    ELSE IF t - cache[preview_id].created_at >= PreviewTTL THEN "PREVIEW_EXPIRED"
    ELSE IF ~cache[preview_id].result.all_checks_passed
      THEN "PREVIEW_CHECKS_FAILED"
    ELSE "OK"

\* C3: the guards refuse with the first violated one in the order trading
\* disabled, dry-run, confirmation required but absent, then (only if a preview
\* id was given) preview missing, expired or failed; when one of the first
\* three refuses, the preview cache is left as it was.
C3_GuardsInOrder ==
    [][ GuardStep =>
          LET first == FirstRefusal(config, call.confirm,
                           IF call.op \in ExecuteOps THEN call.preview_id
                           ELSE NoId, preview_cache, now)
          IN  /\ first # "OK" => call'.pc = "done" /\ call'.result = first
              /\ first \in ConfigRefusals => preview_cache' = preview_cache
              /\ first = "OK" =>
                    call'.result \notin
                        ConfigRefusals \cup {"PREVIEW_EXPIRED", "PREVIEW_CHECKS_FAILED"}
      ]_vars

\* C3 happens: dry-run refused a call that also lacked the required
\* confirmation and named a preview that is not cached
C3_Witness ==
    /\ call.pc = "done"
    /\ call.result = "DRY_RUN_ENABLED"
    /\ call.op \in ExecuteOps
    /\ config.cap_require_explicit_confirm /\ ~call.confirm
    /\ call.preview_id = UncachedId

C5_GetPreview ==
    [][ (GuardStep /\ call.op \in ExecuteOps /\ ConfigPermits(config, call.confirm)) =>
          LET id == call.preview_id
          IN  IF id \notin DOMAIN preview_cache
                THEN /\ call'.result = "PREVIEW_NOT_FOUND"
                     /\ preview_cache' = preview_cache
              ELSE IF now - preview_cache[id].created_at >= PreviewTTL
                THEN /\ call'.result = "PREVIEW_EXPIRED"
                     /\ DOMAIN preview_cache' = DOMAIN preview_cache \ {id}
                     /\ \A p \in DOMAIN preview_cache' :
                            preview_cache'[p] = preview_cache[p]
                     /\ GetPreview(preview_cache', id, now, config).code =
                            "PREVIEW_NOT_FOUND"
              ELSE /\ preview_cache' = preview_cache
                   /\ call'.result \notin {"PREVIEW_NOT_FOUND", "PREVIEW_EXPIRED"}
                   /\ call'.pc = "post" =>
                        call'.request.size =
                            preview_cache[id].result.normalized_request.size
      ]_vars

\* C5 happens: an execute was refused PREVIEW_EXPIRED for a preview that had
\* been cached and is cached no more
C5_Witness ==
    /\ call.pc = "done"
    /\ call.result = "PREVIEW_EXPIRED"
    /\ call.preview_id \in PreviewIds
    /\ call.preview_id < next_preview_id
    /\ call.preview_id \notin DOMAIN preview_cache

CheckOrder ==
    <<"trading_enabled", "epic_allowed", "daily_order_limit", "market_details",
      "max_position_size">>

\* the first check of a preview call that fails (0: none), from the
\* configuration, the counter the daily check left, the fetch the call made and
\* the size it asked for
FirstFailedCheck(c) ==
    IF ~config.cap_allow_trading THEN 1
    ELSE IF ~is_epic_allowed(config, c.epic) THEN 2
    ELSE IF order_count >= config.cap_max_orders_per_day THEN 3
    ELSE IF c.fetch.status # "ok" THEN 4
    ELSE IF \A tie_up \in BOOLEAN :
               NormalizeSize(c.size, c.fetch.rules.minDealSize,
                             c.fetch.rules.maxDealSize,
                             c.fetch.rules.minSizeIncrement, tie_up).size
                   > config.cap_max_position_size THEN 5
    ELSE 0

\* C6: preview_position runs its checks in the order trading enabled, market
\* allowed, daily order limit, market details fetch, maximum position size and
\* stops at the first that fails: a failing preview is returned (not raised)
\* with all_checks_passed false, an empty normalized request, and a check list
\* of the passed checks before the failure followed by the one failed check.
C6_ChecksInOrder ==
    /\ (call.pc = "done" /\ call.op \in PreviewOps /\ call.result # "OK") =>
          /\ call.result \in {"RATE_LIMITED_LOCAL", "LOGIN_FAILED"}
          /\ ~tokens.present
          /\ call.fetch = NoFetch
    /\ ((call.pc = "done" /\ call.op \in PreviewOps /\ call.result = "OK") =>
          LET r == call.preview
              f == FirstFailedCheck(call)
              n == IF f = 0 THEN Len(CheckOrder) ELSE f
          IN  /\ Len(r.checks) = n
              /\ \A i \in 1 .. n :
                    /\ r.checks[i].check = CheckOrder[i]
                    /\ r.checks[i].passed = (i # f)
              /\ r.all_checks_passed = (f = 0)
              /\ f # 0 => r.normalized_request = EmptyRequest)

\* C6 happens: a preview whose market details fetch failed came back as data,
\* its fourth check the failed one
C6_Witness ==
    /\ call.pc = "done"
    /\ call.op = "preview_position"
    /\ call.result = "OK"
    /\ call.fetch.status = "error"
    /\ Len(call.preview.checks) = 4
    /\ ~call.preview.checks[4].passed

\* the count of today's orders the counter stands for
EffectiveCount ==
    IF order_count_date = Today(now) THEN order_count ELSE 0

\* C7: the daily order counter goes up by exactly one in the step in which an
\* order POST returns without error, and in no other step (the clock standing
\* still).
C7_CountsEveryAcceptedPost ==
    [][ now' = now =>
          EffectiveCount' = EffectiveCount +
              (IF /\ call.pc = "inflight"
                  /\ call.op \in ExecuteOps
                  /\ call'.pc # "inflight"
                  /\ call'.result # "UPSTREAM_ERROR"
                 THEN 1 ELSE 0)
      ]_vars

\* C8: the counter is keyed by UTC date. A daily check made when the date
\* differs from the counter's finds a count of 0 (and passes, whatever the
\* earlier day's count), one made on the counter's date passes exactly if the
\* count is below the ceiling; an increment made when the date differs from the
\* counter's leaves a count of 1, one on the counter's date adds one.
C8_CounterKeyedByDate ==
    [][ /\ (/\ call.pc = "run" /\ call.op \in PreviewOps /\ call'.pc = "done"
            /\ Len(call'.preview.checks) >= 3) =>
              /\ call'.preview.checks[3].passed =
                    (EffectiveCount < config.cap_max_orders_per_day)
              /\ order_count' = EffectiveCount
              /\ order_count_date' = Today(now)
        /\ (/\ call.pc = "inflight" /\ call.op \in ExecuteOps
            /\ (call'.pc = "confirm" \/ (call'.pc = "done" /\ call'.result = "OK"))) =>
              /\ order_count' = EffectiveCount + 1
              /\ order_count_date' = Today(now)
              /\ order_count_date # Today(now) => order_count' = 1
      ]_vars

\* C8 happens: after midnight, with both orders the run allows submitted, the
\* counter stands at 1 for the new date
C8_Witness ==
    /\ Today(now) = Today(StartOfRun) + 1
    /\ order_count_date = Today(now)
    /\ order_count = 1
    /\ TotalPosted = MaxOrders
    /\ call.pc = "done" /\ call.op \in ExecuteOps /\ call.result = "OK"

\* C9: a preview that passed all checks has a normalized size within the
\* broker's [minDealSize, maxDealSize] and not above the configured maximum
\* position size, and the size of the broker request an execute tool builds and
\* sends is the normalized size of the cached preview it names.
C9_SizeWithinLimits ==
    /\ (call.pc = "done" /\ call.op \in PreviewOps /\ call.preview.all_checks_passed) =>
          /\ call.preview.normalized_request.size >= call.fetch.rules.minDealSize
          /\ call.preview.normalized_request.size <= call.fetch.rules.maxDealSize
          /\ call.preview.normalized_request.size <= config.cap_max_position_size
    /\ \A p \in DOMAIN preview_cache :
          preview_cache[p].result.all_checks_passed =>
              preview_cache[p].result.normalized_request.size
                  <= config.cap_max_position_size
    /\ (call.op \in ExecuteOps /\ (call.pc = "post" \/ SentTrade(call))) =>
          /\ call.preview_id \in DOMAIN preview_cache
          /\ call.request.size =
                preview_cache[call.preview_id].result.normalized_request.size
          /\ call.request.size <= config.cap_max_position_size

\* C9 happens: an execute tool sent a request of the size the broker's maximum
\* had cut the preview's to
C9_Witness ==
    /\ call.op \in ExecuteOps
    /\ SentTrade(call)
    /\ call.request.size = 5000

\* the multiples of increment nearest to size (two of them at an exact half)
NearestMultiples(size, increment) ==
    LET around == { (size \div increment) * increment,
                    (size \div increment + 1) * increment }
    IN  { m \in around : \A k \in around : Abs(m - size) <= Abs(k - size) }

\* what _normalize_size returns if it rounds size to the multiple m, warns of
\* the rounding when warn_rounding holds, and then clamps
NormalizedFrom(m, warn_rounding, min_size, max_size) ==
    [size |-> IF m < min_size THEN min_size
              ELSE IF m > max_size THEN max_size ELSE m,
     warnings |-> (IF warn_rounding THEN <<"rounded">> ELSE <<>>)
                  \o (IF m < min_size THEN <<"increased_to_minimum">>
                      ELSE IF m > max_size THEN <<"decreased_to_maximum">>
                      ELSE <<>>)]

C11_BoundedRetries ==
    http.pc \notin {"off", "idle"} =>
        /\ http.method # "GET" => http.sends <= 1 /\ http.backoffs = <<>>
        /\ http.sends <= DefaultMaxRetries
        /\ Len(http.backoffs) \in {http.sends - 1, http.sends}
        /\ http.pc \in {"wire", "done"} /\ http.sends > 0
           => Len(http.backoffs) = http.sends - 1
        /\ \A i \in 1..Len(http.backoffs) : http.backoffs[i] = 2^(i - 1)
        /\ /\ http.last \in TransportFailures
           /\ http.method # "GET" \/ http.sends = DefaultMaxRetries
           => http.pc = "done" /\ http.result = "UpstreamError"

\* a GET that timed out three times, slept 1 s and 2 s in between, and ended
\* with an upstream error
C11_Witness ==
    /\ http.pc = "done"
    /\ http.method = "GET"
    /\ http.sends = 3
    /\ http.backoffs = <<1, 2>>
    /\ http.last = "timeout"
    /\ http.result = "UpstreamError"

\* C17: a call the rate limiter did not grant ends with the local rate-limit
\* error and has touched nothing: no request went out, no headers were
\* built, the session tokens' last-used time is what it was when the call
\* began, and the limiter was asked once.
C17_RateLimitRejectionIsLocal ==
    http.pc = "done" /\ http.result = "RateLimitError" =>
        /\ http.sends = 0
        /\ http.headers = None
        /\ http.session_tokens.last_used_at = http.entry_last_used
        /\ http.acquires = 1
        /\ http.last = None

\* a trading POST refused by the limiter while there are session tokens
\* whose last use is in the past
C17_Witness ==
    /\ http.pc = "done"
    /\ http.result = "RateLimitError"
    /\ http.method = "POST"
    /\ http.rate_limit_type = "trading"
    /\ http.session_tokens.present
    /\ http.time > http.session_tokens.last_used_at

\* C18: the requests put on the wire never outnumber the tokens the global
\* bucket granted.
C18_SendsWithinGrants == http.pc # "off" => http.wire <= http.granted

\* C12: whatever acquire, try_acquire, available_tokens and the refills they
\* make do, interleaved between callers, a bucket holds between 0 and its
\* capacity; in one step its tokens stay, or become what the time since the
\* last refill adds at the refill rate up to the capacity, or that less the
\* amount of an acquisition granted in that step; an attempt that is denied
\* leaves exactly the refilled tokens.
C12_BucketAccounting ==
    /\ [](limiter.pc = "on" =>
            \A n \in DOMAIN limiter.buckets :
                /\ limiter.buckets[n].tokens >= 0
                /\ limiter.buckets[n].tokens <= limiter.buckets[n].capacity)
    /\ [][limiter.pc = "on" =>
            \A n \in DOMAIN limiter.buckets :
                LET b == limiter.buckets[n]
                    after == limiter'.buckets[n].tokens
                    grown == MinOf(b.capacity,
                                   b.tokens + b.age * b.refill_rate)
                    grantees ==
                        {c \in Callers :
                            /\ limiter.callers[c].phase # "done"
                            /\ limiter'.callers[c].phase = "done"
                            /\ limiter'.callers[c].result = "granted"
                            /\ limiter'.callers[c].bucket = n}
                    refused ==
                        {c \in Callers :
                            /\ limiter.callers[c].phase # "done"
                            /\ limiter'.callers[c].phase = "done"
                            /\ limiter'.callers[c].result = "denied"
                            /\ limiter'.callers[c].bucket = n}
                IN  /\ \/ after = b.tokens
                       \/ after = grown
                       \/ \E c \in grantees :
                              after = grown - limiter'.callers[c].amount
                    /\ after < b.tokens => grantees # {}
                    /\ refused # {} => after = grown
         ]_vars

\* a try_acquire was denied on a partly refilled bucket while another caller
\* sleeps in acquire
C12_Witness ==
    /\ limiter.pc = "on"
    /\ limiter.callers[1].phase = "sleep"
    /\ limiter.callers[2].op = "try_acquire"
    /\ limiter.callers[2].result = "denied"
    /\ limiter.buckets["bucket"].tokens > 0
    /\ limiter.buckets["bucket"].tokens < limiter.buckets["bucket"].capacity

\* the caller is in or back from TokenBucket.acquire and no other caller has
\* touched the bucket
Alone(c) ==
    /\ limiter.callers[c].op = "acquire"
    /\ \A d \in Callers \ {c} : limiter.callers[d].phase = "idle"

\* the time a sleeping caller had waited when it made its last poll
ElapsedAtPoll(c) ==
    limiter.callers[c].elapsed
        - (PollTicks - limiter.callers[c].sleep_left)

C15_EveryAcquireReturns ==
    \A c \in Callers :
        (limiter.pc = "on" /\ limiter.callers[c].phase = "sleep")
            ~> (limiter.callers[c].phase = "done")

\* an acquire with a timeout sleeps only when its last poll found the timeout
\* not yet elapsed, so it never sleeps past the timeout by a whole sleep
C15_TimedSleepBounded ==
    \A c \in Callers :
        (/\ limiter.pc = "on"
         /\ limiter.callers[c].phase = "sleep"
         /\ limiter.callers[c].timeout # NoTimeout)
            => limiter.callers[c].elapsed
                   < limiter.callers[c].timeout + PollTicks + MaxOversleep

\* C15: every acquire that was given a timeout comes back, granted or
\* not-granted, whatever its amount, at the first poll that finds the tokens
\* or finds the timeout elapsed.
C15_TimedAcquireReturns ==
    /\ []C15_TimedSleepBounded
    /\ \A c \in Callers :
           (/\ limiter.pc = "on"
            /\ limiter.callers[c].phase = "sleep"
            /\ limiter.callers[c].timeout # NoTimeout)
               ~> (/\ limiter.callers[c].phase = "done"
                   /\ limiter.callers[c].result \in {"granted", "denied"})

\* an acquire of more tokens than the bucket can hold, with a timeout of
\* 95 ms, slept and came back not-granted
C15_Witness ==
    /\ limiter.pc = "on"
    /\ limiter.callers[1].op = "acquire"
    /\ limiter.callers[1].amount >
           limiter.buckets[limiter.callers[1].bucket].capacity
    /\ limiter.callers[1].timeout = GlobalTokenTicks - 1
    /\ limiter.callers[1].elapsed >= GlobalTokenTicks - 1
    /\ limiter.callers[1].phase = "done"
    /\ limiter.callers[1].result = "denied"

\* C16: an acquire without timeout of an amount the bucket can hold, made
\* among a bounded number of acquisitions on the same bucket, is granted in
\* the end, provided ready coroutines run and time goes on.
C16_NoStarvation ==
    \A c \in Callers :
        (/\ limiter.pc = "on"
         /\ limiter.callers[c].phase = "sleep"
         /\ limiter.callers[c].timeout = NoTimeout
         /\ limiter.callers[c].amount
                <= limiter.buckets[limiter.callers[c].bucket].capacity)
            ~> (limiter.callers[c].result = "granted")

\* not first come first served: caller 2 went to sleep after caller 1 and
\* was granted while caller 1 still sleeps
C16_Witness ==
    /\ limiter.pc = "on"
    /\ limiter.callers[1].op = "acquire"
    /\ limiter.callers[1].phase = "sleep"
    /\ limiter.callers[1].timeout = NoTimeout
    /\ limiter.callers[1].amount = TokenUnits
    /\ limiter.callers[2].op = "acquire"
    /\ limiter.callers[2].result = "granted"
    /\ limiter.callers[2].amount = TokenUnits
    /\ limiter.callers[2].elapsed > 0
    /\ limiter.callers[2].elapsed < limiter.callers[1].elapsed

\* C13: acquire_session and acquire_trading take the global token first: a
\* caller reaches its own bucket only in a step that took one token from the
\* global bucket, and when the global bucket does not grant within the
\* timeout the acquisition comes back not-granted in a step that leaves the
\* session or trading bucket exactly as it was.
C13_GlobalFirst ==
    [][limiter.pc = "on" =>
        \A c \in Callers :
            LET me == limiter.callers[c]
                after == limiter'.callers[c]
                global == limiter.buckets["global"]
            IN  after.op \in {"acquire_session", "acquire_trading"} =>
                    /\ /\ me.phase # "done"
                       /\ after.phase = "done"
                       /\ after.inner # None
                       => /\ after.result = "denied"
                          /\ limiter'.buckets[after.inner]
                                 = limiter.buckets[after.inner]
                    /\ me.bucket # after.bucket /\ after.bucket # "global"
                       => limiter'.buckets["global"].tokens
                              = MinOf(global.capacity,
                                      global.tokens
                                          + global.age * global.refill_rate)
                                    - TokenUnits
     ]_vars

\* acquire_session came back not-granted from the global bucket after
\* sleeping, and the session bucket is full
C13_Witness ==
    /\ limiter.pc = "on"
    /\ limiter.callers[1].op = "acquire_session"
    /\ limiter.callers[1].phase = "done"
    /\ limiter.callers[1].result = "denied"
    /\ limiter.callers[1].inner = "session"
    /\ limiter.callers[1].elapsed > 0
    /\ limiter.buckets["session"].tokens
           = limiter.buckets["session"].capacity

\* the callers inside a login sequence: waiting for the limiter, with
\* POST /session on the wire, or switching the account
LoggingIn == {c \in LoginCallers :
                 logins.callers[c].phase \in {"limiter", "wire", "switch"}}

\* C19: at most one login sequence, the POST and the account switch that
\* may follow it, is in progress at any time, and it is the lock holder's.
C19_OneLoginInProgress ==
    logins.pc = "on" =>
        /\ Cardinality(LoggingIn) <= 1
        /\ \A c \in LoggingIn : logins.holder = c

\* one caller is switching the account after its POST while the two others
\* wait for the lock
C19_Witness ==
    /\ logins.pc = "on"
    /\ logins.callers[1].phase = "switch"
    /\ logins.callers[2].phase = "wait_lock"
    /\ logins.callers[3].phase = "wait_lock"

\* C20: when the callers of ensure_logged_in and of login without force met
\* no valid session and the first login sequence succeeded, one POST /session
\* was made in all.
C20_ExactlyOneLogin ==
    /\ logins.pc = "on"
    /\ \A c \in LoginCallers :
           logins.callers[c].op = "login" => ~logins.callers[c].force
    /\ logins.first = "ok"
    => logins.posts = 1

\* the step is a call of op: op is the operation that returned
Did(op) ==
    /\ logins.pc = "session"
    /\ logins'.last.op = op

SessionUntouched ==
    /\ logins'.tokens = logins.tokens
    /\ logins'.client_tokens = logins.client_tokens
    /\ logins'.account_id = logins.account_id
    /\ logins'.posts = logins.posts
    /\ logins'.last.sent = <<>>

\* C21: a login without force that finds tokens that have not expired, as
\* the second of two logins in immediate succession does, answers that the
\* session is already active, sends nothing, and leaves the tokens, their
\* last use and the account id as they were.
C21_SecondLoginIsCached ==
    [][Did("login") /\ ~logins'.last.force
           /\ logins.tokens.present
           /\ logins.time - logins.tokens.last_used_at < SessionMaxAge
       => /\ logins'.last.result = "already_active"
          /\ SessionUntouched]_vars

\* the second of two logins made at the same instant: one POST in all
C21_Witness ==
    /\ logins.pc = "session"
    /\ logins.last.op = "login"
    /\ ~logins.last.force
    /\ logins.last.held
    /\ logins.last.result = "already_active"
    /\ logins.posts = 1
    /\ logins.since = logins.time
    /\ logins.tokens.last_used_at = logins.time

LoginErrors == {"RateLimitError", "UpstreamError", "SessionError"}

\* C22: a login that fails, by a response without a token or by any other
\* failure of its sequence, leaves neither the SessionManager nor the HTTP
\* client with tokens, whatever was held before.
C22_FailClosed ==
    [][Did("login") /\ logins'.last.result \in LoginErrors
       => /\ ~logins'.tokens.present
          /\ ~logins'.client_tokens.present]_vars

\* a forced login over a valid session was answered without a token
C22_Witness ==
    /\ logins.pc = "session"
    /\ logins.last.op = "login"
    /\ logins.last.force
    /\ logins.last.held
    /\ logins.last.result = "SessionError"
    /\ ~logins.tokens.present
    /\ ~logins.client_tokens.present

\* C23: ensure_logged_in logs in exactly when the tokens are absent (without
\* force) or at least 540 s old (with force); with tokens younger than that
\* it sends nothing and changes nothing; and when it returns normally the
\* tokens are present and not expired.
C23_EnsureLoggedIn ==
    [][Did("ensure_logged_in")
       => LET present == logins.tokens.present
              age == logins.time - logins.tokens.last_used_at
          IN  /\ ~present
                 => ~logins'.last.force /\ logins'.last.result # "valid"
              /\ present /\ age >= 540
                 => logins'.last.force /\ logins'.last.result # "valid"
              /\ present /\ age < 540
                 => logins'.last.result = "valid" /\ SessionUntouched
              /\ logins'.last.result \in LoginErrors
                 <=> logins'.last.result \notin {"valid", "ok"}
              /\ logins'.last.result \in {"valid", "ok"}
                 => /\ logins'.tokens.present
                    /\ logins'.time - logins'.tokens.last_used_at < 540]_vars

\* tokens got at 0 and not used since were replaced at 540 exactly
C23_Witness ==
    /\ logins.pc = "session"
    /\ logins.last.op = "ensure_logged_in"
    /\ logins.last.force
    /\ logins.last.result = "ok"
    /\ logins.time = 540
    /\ logins.tokens.cst = 2

\* tokens that were put on a request less than 540 s ago have not expired
C24_UsedIsFresh ==
    logins.pc = "session" /\ logins.tokens.present
        /\ logins.time - logins.last_attach < SessionMaxAge
    => logins.time - logins.tokens.last_used_at < SessionMaxAge

\* and ensure_logged_in does not log in again over them
C24_NoRelogin ==
    Did("ensure_logged_in") /\ logins.tokens.present
        /\ logins.time - logins.last_attach < SessionMaxAge
    => logins'.last.result = "valid" /\ logins'.posts = logins.posts

\* C24: expiry slides: every request that carries the tokens sets their last
\* use to now, so a session used at intervals under 540 s is never expired
\* and ensure_logged_in never logs in again over it.
C24_SlidingExpiry == [](C24_UsedIsFresh) /\ [][C24_NoRelogin]_vars

\* the tokens of the one login are still valid 540 s or more after it
C24_Witness ==
    /\ logins.pc = "session"
    /\ logins.last.op = "ensure_logged_in"
    /\ logins.last.result = "valid"
    /\ logins.posts = 1
    /\ logins.tokens.cst = 1
    /\ logins.time - logins.since >= SessionMaxAge

\* C25: a logout that holds tokens returns normally whatever its DELETE
\* came to, and leaves no tokens and no account id in the SessionManager and
\* no tokens in the HTTP client; a logout that holds none sends nothing and
\* changes nothing.
C25_LogoutClears ==
    [][Did("logout")
       => /\ logins'.last.result \in {"ok", "warning", "nothing"}
          /\ logins.tokens.present
             => /\ ~logins'.tokens.present
                /\ logins'.account_id = None
                /\ ~logins'.client_tokens.present
          /\ ~logins.tokens.present
             => logins'.last.result = "nothing" /\ SessionUntouched]_vars

\* the DELETE of a logout failed and the session is gone all the same
C25_Witness ==
    /\ logins.pc = "session"
    /\ logins.last.op = "logout"
    /\ logins.last.result = "warning"
    /\ logins.last.sent = <<"DELETE /session">>
    /\ ~logins.tokens.present
    /\ logins.account_id = None
    /\ ~logins.client_tokens.present

\* C26: when the stream receives again after a connection loss, the set of
\* subscriptions is the set held when the connection was lost, and every
\* market of it has been subscribed on the new connection.
C26_SubscriptionsRestored ==
    ws.pc = "loop" /\ ws.reconnect_count > 0
    => /\ ws.conn = "open"
       /\ ws.subscribed = ws.at_loss
       /\ ws.remote = ws.at_loss

\* the stream receives again with its 25 markets after a second loss
C26_Witness ==
    /\ ws.pc = "loop"
    /\ ws.reconnect_count = 2
    /\ ws.at_loss = 1 .. 25
    /\ ws.remote = 1 .. 25
    /\ ws.last_tick_at > 0

\* C27: a stream ends with an upstream failure after a connection loss only
\* when all its reconnection attempts are used.
C27_FailsOnlyWhenExhausted ==
    ws.pc = "ended" /\ ws.outcome = "UpstreamError"
    => ws.reconnect_count = ws.attempts

\* C28: the set of subscriptions never holds more than 40 markets.
C28_AtMostForty == Cardinality(ws.subscribed) <= MaxSubscriptions

\* C29: a stream has ended by the time its duration has elapsed.
C29_EndsByDeadline == ws.pc = "ended" => ws.elapsed <= ws.duration

\* C30: once a stream has ended, normally or with an error, no subscription
\* is held.
C30_EmptyAfterStream == ws.pc = "ended" => ws.subscribed = {}

C32_DailyCeiling ==
    order_count_date = Today(now)
    => order_count <= config.cap_max_orders_per_day

\* C33: every preview in the cache passed all its checks: a preview that
\* failed a check is returned but not cached, an execute with its id ends
\* with not found before anything is sent, and the guards never answer that
\* the preview checks failed.
C33_CacheHoldsPassingPreviews ==
    /\ \A p \in DOMAIN preview_cache :
           preview_cache[p].result.all_checks_passed
    /\ call.result # "PREVIEW_CHECKS_FAILED"
    /\ call.pc = "done" /\ call.op \in PreviewOps /\ call.result = "OK"
           /\ ~call.preview.all_checks_passed
       => call.preview.preview_id \notin DOMAIN preview_cache
    /\ call.op \in ExecuteOps /\ call.preview_id = UncachedId
       => /\ call.pc \in {"run", "done"}
          /\ call.pc = "done"
             => call.result \notin {"OK", "PREVIEW_EXPIRED"}
          /\ \A i \in 1 .. Len(call.sent) :
                 call.sent[i] \notin MutatingTradeRequests

\* a preview that failed the size policy was returned while the cache held
\* the preview made before it
C33_Witness ==
    /\ call.pc = "done"
    /\ call.op \in PreviewOps
    /\ call.result = "OK"
    /\ ~call.preview.all_checks_passed
    /\ Len(call.preview.checks) = 5
    /\ call.preview.preview_id = UncachedId
    /\ DOMAIN preview_cache = {1}

\* the cached preview was made by preview_working_order: it carries the
\* order type
IsWorkingOrderPreview(preview_id) ==
    "type" \in DOMAIN preview_cache[preview_id].result.normalized_request

\* C34: an execute tool has its POST on the wire only for a preview of its
\* own kind: execute_position for a preview made by preview_position,
\* execute_working_order for one made by preview_working_order.
C34_ExecutedAsPreviewed ==
    call.pc = "inflight" /\ call.op \in ExecuteOps
        /\ call.preview_id \in DOMAIN preview_cache
    => (call.op = "execute_working_order"
            <=> IsWorkingOrderPreview(call.preview_id))

\* a request that the broker answered with 401 or 403 leaves the tokens in
\* place, marked as used now
C35_AuthErrorKeepsTokens ==
    Did("request") /\ logins'.last.result = "SessionError"
        /\ logins.tokens.present
    => /\ logins'.tokens = [logins.tokens EXCEPT !.last_used_at = logins.time]
       /\ logins'.client_tokens = logins'.tokens

\* the ensure_logged_in that follows it does not log in
C35_NoLoginAfterAuthError ==
    Did("ensure_logged_in") /\ logins.last.op = "request"
        /\ logins.last.result = "SessionError" /\ logins.tokens.present
    => logins'.last.result = "valid" /\ SessionUntouched

\* tokens go away by a logout or a failed login only
C35_ClearedByLogoutOrFailedLogin ==
    logins.pc = "session" /\ logins.tokens.present /\ ~logins'.tokens.present
    => \/ logins'.last.op = "logout"
       \/ /\ logins'.last.op \in {"login", "ensure_logged_in"}
          /\ logins'.last.result \in LoginErrors

\* C35: a 401/403 answer raises a session error and leaves the stored tokens
\* in place with their last use just refreshed, so that the next
\* ensure_logged_in does not log in; only a logout or a failed login clears
\* the tokens.
C35_AuthErrorLeavesSession ==
    [][/\ C35_AuthErrorKeepsTokens
       /\ C35_NoLoginAfterAuthError
       /\ C35_ClearedByLogoutOrFailedLogin]_vars

\* a request with tokens got 500 s or more before was answered with 401 or
\* 403, and the tokens are there, used now
C35_Witness ==
    /\ logins.pc = "session"
    /\ logins.last.op = "request"
    /\ logins.last.result = "SessionError"
    /\ logins.tokens.present
    /\ logins.tokens.last_used_at = logins.time
    /\ logins.time - logins.since >= 500

C37_GrantsPerWindow ==
    limiter.pc = "window"
    => limiter.granted
           <= limiter.bucket.capacity + limiter.bucket.refill_rate * limiter.time

\* the global bucket granted its ten tokens and the one more that 0.1 s
\* added
C37_Witness ==
    /\ limiter.pc = "window"
    /\ limiter.bucket.capacity = 10 * TokenUnits
    /\ limiter.time = TicksPerSecond \div 10
    /\ limiter.granted = 11 * TokenUnits

\* C38: wherever another task can run, the SessionManager's tokens and the
\* client's session_tokens are the same value, both absent or the same pair,
\* whatever the interleaving of logins, failed logins and logouts.
C38_TokensAliased ==
    logins.pc = "tasks" => logins.tokens = logins.client_tokens

\* a second login stored its pair while a logout that started under the first
\* pair still waits for its DELETE
C38_Witness ==
    /\ logins.pc = "tasks"
    /\ logins.tokens.present
    /\ logins.tokens.cst = 2
    /\ logins.client_tokens.cst = 2
    /\ \E c \in SessionTasks : logins.tasks[c].phase = "delete"

\* C39: within one stream() call the reconnection counter only grows, no
\* reconnection and no tick resets it, the stream goes into at most
\* reconnect_attempts reconnections, and a receive that times out neither
\* counts as an attempt nor ends the stream.
C39_CounterBounded ==
    ws.pc \in {"loop", "backoff", "ended"}
    => /\ ws.reconnects <= ws.reconnect_count
       /\ ws.reconnect_count <= ws.attempts

C39_CounterGrows ==
    ws.pc \in {"loop", "backoff"}
    => /\ ws'.reconnect_count >= ws.reconnect_count
       /\ ws'.attempts = ws.attempts

\* a turn of the loop that waited out its timeout: time passed, no tick was
\* yielded and the connection is as open as before
C39_QuietTurn ==
    (/\ ws.pc = "loop"
     /\ ws.conn = "open" /\ ws'.conn = "open"
     /\ ws'.elapsed > ws.elapsed
     /\ ws'.last_tick_at = ws.last_tick_at)
    => /\ ws'.pc = "loop"
       /\ ws'.reconnect_count = ws.reconnect_count
       /\ ws'.reconnects = ws.reconnects

C39_ReconnectionsBounded ==
    []C39_CounterBounded /\ [][C39_CounterGrows /\ C39_QuietTurn]_vars

\* a stream with three attempts reconnected twice, yielded a tick after the
\* second reconnection and then sat through a quiet period: the counter
\* still says two
C39_Witness ==
    /\ ws.pc = "loop"
    /\ ws.attempts = DefaultReconnectAttempts
    /\ ws.reconnect_count = 2
    /\ ws.reconnects = 2
    /\ ws.last_tick_at >= 6
    /\ ws.elapsed > ws.last_tick_at

\* C40: the confirmation poll returns the first polled result whose status is
\* ACCEPTED or REJECTED, or times out once timeout_s has elapsed; an error
\* raised by a poll is swallowed and polling goes on; and as long as every
\* poll returns, the operation completes.
C40_Outcome ==
    http.pc = "done"
    => \/ /\ http.result \in {"ACCEPTED", "REJECTED"}
          /\ http.seen # <<>>
          /\ http.seen[Len(http.seen)] = http.result
          /\ \A i \in 1 .. (Len(http.seen) - 1) :
                 http.seen[i] \notin {"ACCEPTED", "REJECTED"}
       \/ /\ http.result = "TimeoutError"
          /\ http.elapsed >= http.timeout
          /\ \A i \in 1 .. Len(http.seen) :
                 http.seen[i] \notin {"ACCEPTED", "REJECTED"}

C40_ErrorSwallowed ==
    (http.pc = "loop" /\ http'.seen = Append(http.seen, "error"))
    => /\ http'.pc = "loop"
       /\ http'.result = None

C40_PollCompletes ==
    /\ []C40_Outcome
    /\ [][C40_ErrorSwallowed]_vars
    /\ <>(http.pc = "done")

\* a poll raised, the next found the deal pending, the third found it
\* rejected, and that is what came back
C40_Witness ==
    /\ http.pc = "done"
    /\ http.seen = <<"error", "PENDING", "REJECTED">>
    /\ http.result = "REJECTED"

====
